---- MODULE Spec2Model ----
(***************************************************************************)
(* State-machine model of the risk-gated execution pipeline:               *)
(*   - src/src/rate_limiter.py   RateLimiter (three sliding windows/key)   *)
(*   - src/src/trading_crew.py   coordinate_tool (confidence-weighted      *)
(*                               merge under a hard risk veto), risk_tool  *)
(*   - src/src/trade_executor.py execute_action (guards, caps, cooldown,   *)
(*                               dry-run / live submission)                *)
(* Time is counted in clock ticks of 0.2 s (the executor's backoff sleep). *)
(* Money and prices are integers; percentages and confidences are exact    *)
(* rationals written in hundredths.                                        *)
(***************************************************************************)
EXTENDS Integers, Sequences, FiniteSets, TLC

VARIABLES
    clock,        \* value returned by the time source (ticks)
    per_second,   \* RateLimiter.per_second
    per_hour,     \* RateLimiter.per_hour
    per_day,      \* RateLimiter.per_day
    secHits,      \* RateLimiter._per_second_hits : key -> deque of timestamps
    hourHits,     \* RateLimiter._per_hour_hits
    dayHits,      \* RateLimiter._per_day_hits
    last,         \* observation: the last allow() call (key, now, result)
    admitted,     \* observation: per key, every timestamp ever admitted
    solo,         \* observation: per key, a limiter that only ever sees that key
    lazy,         \* observation: per key, a limiter that never sees denied calls
    nCalls,       \* number of allow() calls made
    nTicks,       \* number of clock advances made
    last_sell_ts, \* portfolio._portfolio_state.last_sell_ts : symbol -> time
    env,          \* os.environ, as far as the pipeline reads it
    coordCall,    \* observation: the last coordinate_tool call and its outcome
    riskCall,     \* observation: the last risk_tool call and its outcome
    rate_limiter, \* trade_executor._rate_limiter: None or the RateLimiter above
    last_order,   \* trade_executor._last_order_by_symbol_side
    execCall,     \* observation: the last execute_action call and its outcome
    nExec,        \* number of execute_action calls made
    pc,           \* per caller of allow(): where it stands inside the call
    frame,        \* per caller of allow(): the locals of its last call
    market_state, \* DeterministicTradingCrew._market_state : symbol -> last price
    momentumCall, \* observation: the last momentum_tool call and its outcome
    valuationCall, \* observation: the last valuation_tool call and its outcome
    kickoffCall,  \* observation: the last kickoff of the crew and its outcome
    flow,         \* TradingFlow: position in run_iteration, stop flag, log
    loop,         \* agent_trader.run_trading_loop: position, iteration, stop event
    decideCall    \* observation: the last CoordinatorAgent.decide and its result

rlVars == <<clock, per_second, per_hour, per_day, secHits, hourHits, dayHits,
            last, admitted, solo, lazy, nCalls, nTicks>>
coVars == <<last_sell_ts, coordCall, riskCall>>
exVars == <<rate_limiter, last_order, execCall, nExec>>

thVars == <<pc, frame>>
tkVars == <<valuationCall, kickoffCall, flow, loop, decideCall>>
crVars == <<market_state, momentumCall, tkVars>>

vars == <<rlVars, coVars, exVars, env, thVars, crVars>>

-----------------------------------------------------------------------------
(* Bounds of the model *)

MaxCalls == 3
MaxTicks == 2
MaxExec == 2

(* Clock unit: time.sleep(0.2) is one tick, so one second is five ticks. *)
TicksPerSecond == 5

SecondWindow == 1 * TicksPerSecond
HourWindow == 3600 * TicksPerSecond
DayWindow == 86400 * TicksPerSecond

Keys == {"u1", "executor:submit_order"}
Capacities == {1, 2}

(* Clock advances between calls: inside the 1 s window, and exactly one    *)
(* second, one hour and one day.                                           *)
ClockSteps == {1, SecondWindow, HourWindow, DayWindow}

NoCall == [key |-> "", now |-> -1, result |-> FALSE]

(* Python's None, where a string is expected and where a number is. *)
None == "None"
NoneNum == -999

(* Tracked symbols, and the spellings a decision may use for them. *)
Symbols == {"PLTR", "NFLX"}
Spellings == {"PLTR", "pltr", "NFLX"}

(* str.upper() on the spellings above. *)
upper(s) == IF s = "pltr" THEN "PLTR" ELSE s

(* The environment when nothing is set: every reader's default value. *)
DefaultEnv ==
    [EXECUTE |-> "", MAX_POSITION_PERCENT |-> 20, MAX_SHARES_PER_TRADE |-> 10,
     BUY_COOLDOWN_SECONDS |-> 60, PRICE_MOVE_BYPASS_PCT |-> 1,
     ENABLE_OPEN_ORDER_GUARD |-> "1", SELL_COOLDOWN_MIN |-> 120]

NoCoordCall == [called |-> FALSE]
NoRiskCall == [called |-> FALSE]
NoExecCall == [called |-> FALSE]

(* Keys of _last_order_by_symbol_side, and the value of an absent key. *)
OrderKeys == Symbols \X {"BUY", "SELL"}
NoRecord == <<>>

(* The executor module before any call. *)
IdleExecutor ==
    /\ rate_limiter = None
    /\ last_order = [k \in OrderKeys |-> NoRecord]
    /\ execCall = NoExecCall
    /\ nExec = 0
EmptyQueues == [sec |-> <<>>, hour |-> <<>>, day |-> <<>>]

(* The crew before its first kickoff: no symbol has a last-seen price. *)
NoPrices == [s \in {} |-> 0]
NoMomentumCall == [called |-> FALSE]
NoValuationCall == [called |-> FALSE]
NoKickoffCall == [called |-> FALSE]
NoFlow == [pc |-> "not started"]
NoLoop == [pc |-> "not started"]
NoDecideCall == [called |-> FALSE]
IdleCrew ==
    /\ market_state = NoPrices
    /\ momentumCall = NoMomentumCall
    /\ valuationCall = NoValuationCall
    /\ kickoffCall = NoKickoffCall
    /\ flow = NoFlow
    /\ loop = NoLoop
    /\ decideCall = NoDecideCall

(* Call sites of allow() that share one limiter, and the locals of a call  *)
(* that has not been made.                                                 *)
Callers == {"market_data", "trade_executor"}
NoFrame == [key |-> "", now |-> -1, checked |-> EmptyQueues, returned |-> None]

-----------------------------------------------------------------------------
(* RateLimiter *)

(* Variant of _prune that keeps a hit recorded exactly one window ago. *)
RECURSIVE _prune_keeps_edge(_, _, _)
_prune_keeps_edge(hits, now, window_seconds) ==
    IF hits # <<>> /\ Head(hits) < now - window_seconds
    THEN _prune_keeps_edge(Tail(hits), now, window_seconds)
    ELSE hits

(* Variant of _prune with `if` in place of `while`: one entry at most. *)
_prune_once(hits, now, window_seconds) ==
    IF hits # <<>> /\ Head(hits) <= now - window_seconds
    THEN Tail(hits)
    ELSE hits

(* _prune: pop from the front while the oldest hit is <= now - window. *)
RECURSIVE _prune(_, _, _)
_prune(hits, now, window_seconds) ==
    IF hits # <<>> /\ Head(hits) <= now - window_seconds
    THEN _prune(Tail(hits), now, window_seconds)
    ELSE hits

(* Variant of the capacity tests that admits one call too many. *)
AtCapacity_off_by_one(sec_hits, hour_hits, day_hits) ==
    \/ Len(sec_hits) > per_second
    \/ Len(hour_hits) > per_hour
    \/ Len(day_hits) > per_day

(* The three capacity tests of allow(), on the pruned queues. *)
AtCapacity(sec_hits, hour_hits, day_hits) ==
    \/ Len(sec_hits) >= per_second
    \/ Len(hour_hits) >= per_hour
    \/ Len(day_hits) >= per_day

(* Variant of allow() that records the timestamp of a denied call too. *)
AllowOn_records_denied(q, now) ==
    LET sec_hits == _prune(q.sec, now, SecondWindow)
        hour_hits == _prune(q.hour, now, HourWindow)
        day_hits == _prune(q.day, now, DayWindow)
    IN  <<~AtCapacity(sec_hits, hour_hits, day_hits),
          [sec |-> Append(sec_hits, now),
           hour |-> Append(hour_hits, now),
           day |-> Append(day_hits, now)]>>

(* allow() on one key's three queues: <<result, queues afterwards>>. *)
AllowOn(q, now) ==
    LET sec_hits == _prune(q.sec, now, SecondWindow)
        hour_hits == _prune(q.hour, now, HourWindow)
        day_hits == _prune(q.day, now, DayWindow)
    IN  IF AtCapacity(sec_hits, hour_hits, day_hits)
        THEN <<FALSE, [sec |-> sec_hits, hour |-> hour_hits, day |-> day_hits]>>
        ELSE <<TRUE, [sec |-> Append(sec_hits, now),
                      hour |-> Append(hour_hits, now),
                      day |-> Append(day_hits, now)]>>

QueuesOf(key) == [sec |-> secHits[key], hour |-> hourHits[key], day |-> dayHits[key]]

(* Variant in which all keys share one set of queues. *)
StoreHits_shared(key, q) ==
    /\ secHits' = [k \in Keys |-> q.sec]
    /\ hourHits' = [k \in Keys |-> q.hour]
    /\ dayHits' = [k \in Keys |-> q.day]

(* How the three dictionaries change when allow(key) leaves queues q behind. *)
StoreHits(key, q) ==
    /\ secHits' = [secHits EXCEPT ![key] = q.sec]
    /\ hourHits' = [hourHits EXCEPT ![key] = q.hour]
    /\ dayHits' = [dayHits EXCEPT ![key] = q.day]

(* RateLimiter.allow(key) at the current clock value. *)
allow(key) ==
    /\ nCalls < MaxCalls
    /\ LET now == clock
           r == AllowOn(QueuesOf(key), now)
       IN  /\ StoreHits(key, r[2])
           /\ last' = [key |-> key, now |-> now, result |-> r[1]]
           /\ admitted' = IF r[1]
                          THEN [admitted EXCEPT ![key] = Append(@, now)]
                          ELSE admitted
           /\ solo' = [solo EXCEPT ![key] = AllowOn(@, now)[2]]
           /\ lazy' = IF AllowOn(lazy[key], now)[1]
                      THEN [lazy EXCEPT ![key] = AllowOn(@, now)[2]]
                      ELSE lazy
    /\ nCalls' = nCalls + 1
    /\ UNCHANGED <<clock, per_second, per_hour, per_day, nTicks>>
    /\ UNCHANGED <<coVars, exVars, env, thVars, crVars>>

(* The injected time source moves forward between calls. *)
Tick(d) ==
    /\ nTicks < MaxTicks
    /\ clock' = clock + d
    /\ nTicks' = nTicks + 1
    /\ UNCHANGED <<per_second, per_hour, per_day, secHits, hourHits, dayHits,
                   last, admitted, solo, lazy, nCalls>>
    /\ UNCHANGED <<coVars, exVars, env, thVars, crVars>>

(* RateLimiter.__init__: empty queues for every key. *)
NewLimiter ==
    /\ clock = 0
    /\ secHits = [k \in Keys |-> <<>>]
    /\ hourHits = [k \in Keys |-> <<>>]
    /\ dayHits = [k \in Keys |-> <<>>]
    /\ last = NoCall
    /\ admitted = [k \in Keys |-> <<>>]
    /\ solo = [k \in Keys |-> EmptyQueues]
    /\ lazy = [k \in Keys |-> EmptyQueues]
    /\ nCalls = 0
    /\ nTicks = 0
    /\ pc = [c \in Callers |-> "idle"]
    /\ frame = [c \in Callers |-> NoFrame]

(* A limiter built with any capacities; the rest of the process is idle. *)
InitRL ==
    /\ NewLimiter
    /\ per_second \in Capacities
    /\ per_hour \in Capacities
    /\ per_day \in Capacities
    /\ last_sell_ts = [s \in Symbols |-> NoneNum]
    /\ env = DefaultEnv
    /\ coordCall = NoCoordCall
    /\ riskCall = NoRiskCall
    /\ IdleCrew
    /\ IdleExecutor

NextRL ==
    \/ \E key \in Keys : allow(key)
    \/ \E d \in ClockSteps : Tick(d)

SpecRL == InitRL /\ [][NextRL]_vars

-----------------------------------------------------------------------------
(* Properties of RateLimiter *)

(* A step of the model that is a call of allow(). *)
IsAllowStep == nCalls' = nCalls + 1

(* Number of hits of a queue that are newer than now - window. *)
Newer(hits, now, window) == Len(SelectSeq(hits, LAMBDA e : e > now - window))

(* Number of hits of a queue that are not older than now - window. *)
NotOlder(hits, now, window) == Len(SelectSeq(hits, LAMBDA e : e >= now - window))

(* The hits of a queue that are newer than now - window, in order. *)
Live(hits, now, window) == SelectSeq(hits, LAMBDA e : e > now - window)

(* C2 as stated: allow(key) returns true iff, counting every hit that is   *)
(* not older than now - window (a hit recorded exactly one window ago      *)
(* included), no window has reached its capacity.                          *)
C2_AllowIffEdgeCounts ==
    [][IsAllowStep =>
        LET k == last'.key
            now == last'.now
        IN  last'.result <=>
              /\ NotOlder(secHits[k], now, SecondWindow) < per_second
              /\ NotOlder(hourHits[k], now, HourWindow) < per_hour
              /\ NotOlder(dayHits[k], now, DayWindow) < per_day]_vars

(* C2 amended: allow(key) returns true iff, counting the hits newer than   *)
(* now - window (a hit recorded exactly one window ago has expired), no    *)
(* window has reached its capacity; on true the current timestamp is       *)
(* appended to the live hits of all three queues.                          *)
C2_AllowIffBelowCapacity ==
    [][IsAllowStep =>
        LET k == last'.key
            now == last'.now
        IN  /\ now = clock
            /\ last'.result <=>
                  /\ Newer(secHits[k], now, SecondWindow) < per_second
                  /\ Newer(hourHits[k], now, HourWindow) < per_hour
                  /\ Newer(dayHits[k], now, DayWindow) < per_day
            /\ last'.result =>
                  /\ secHits'[k] = Append(Live(secHits[k], now, SecondWindow), now)
                  /\ hourHits'[k] = Append(Live(hourHits[k], now, HourWindow), now)
                  /\ dayHits'[k] = Append(Live(dayHits[k], now, DayWindow), now)]_vars

(* C2 witness: with per_second = 1 a call was admitted exactly one second  *)
(* after the previous admitted call on the same key.                       *)
C2_Witness ==
    /\ per_second = 1
    /\ last.result
    /\ Len(admitted[last.key]) >= 2
    /\ admitted[last.key][Len(admitted[last.key]) - 1] = last.now - SecondWindow

(* Number of admitted calls of key k with a timestamp in (t - window, t]. *)
AdmittedIn(k, t, window) ==
    Len(SelectSeq(admitted[k], LAMBDA e : e > t - window /\ e <= t))

(* The instants at which a window can end with the most admitted calls. *)
WindowEnds(k) == {admitted[k][i] : i \in 1 .. Len(admitted[k])} \cup {clock}

(* C3: every queue holds at most its capacity, and the number of admitted  *)
(* calls inside any window never exceeds that window's capacity.           *)
C3_WithinCapacity ==
    \A k \in Keys :
        /\ Len(secHits[k]) <= per_second
        /\ Len(hourHits[k]) <= per_hour
        /\ Len(dayHits[k]) <= per_day
        /\ \A t \in WindowEnds(k) :
              /\ AdmittedIn(k, t, SecondWindow) <= per_second
              /\ AdmittedIn(k, t, HourWindow) <= per_hour
              /\ AdmittedIn(k, t, DayWindow) <= per_day

(* C3 witness: a successful allow left the hour queue exactly full while   *)
(* the second queue is not.                                                *)
C3_Witness ==
    /\ last.result
    /\ Len(hourHits[last.key]) = per_hour
    /\ Len(secHits[last.key]) < per_second
    /\ Len(admitted[last.key]) >= 2

(* C4 as stated: for each of the three windows, once the window holds     *)
(* N = capacity hits the next call inside it is denied, and a call made    *)
(* after the clock has advanced past that window succeeds again.           *)
C4_SucceedsPastWindow ==
    [][IsAllowStep =>
        LET k == last'.key
            now == last'.now
        IN  /\ Newer(secHits[k], now, SecondWindow) >= per_second => ~last'.result
            /\ Newer(hourHits[k], now, HourWindow) >= per_hour => ~last'.result
            /\ Newer(dayHits[k], now, DayWindow) >= per_day => ~last'.result
            /\ (Len(secHits[k]) = per_second /\ Newer(secHits[k], now, SecondWindow) = 0)
                  => last'.result
            /\ (Len(hourHits[k]) = per_hour /\ Newer(hourHits[k], now, HourWindow) = 0)
                  => last'.result
            /\ (Len(dayHits[k]) = per_day /\ Newer(dayHits[k], now, DayWindow) = 0)
                  => last'.result]_vars

(* Whether window w of key k is full at instant now. *)
Full(hits, now, window, capacity) == Newer(hits, now, window) >= capacity

(* C4 amended: for each of the three windows, a call made while the window *)
(* holds N = capacity live hits is denied; a call made after the clock has *)
(* advanced past every window that was full succeeds again.                *)
C4_DeniedWhenFullThenAgain ==
    [][IsAllowStep =>
        LET k == last'.key
            now == last'.now
        IN  /\ Full(secHits[k], now, SecondWindow, per_second) => ~last'.result
            /\ Full(hourHits[k], now, HourWindow, per_hour) => ~last'.result
            /\ Full(dayHits[k], now, DayWindow, per_day) => ~last'.result
            /\ ( /\ ~Full(secHits[k], now, SecondWindow, per_second)
                 /\ ~Full(hourHits[k], now, HourWindow, per_hour)
                 /\ ~Full(dayHits[k], now, DayWindow, per_day) )
                  => last'.result]_vars

(* C4 witness: with per_second = 1 a key is admitted, denied inside the    *)
(* second, and admitted again exactly one second after the first call.     *)
C4_Witness ==
    /\ per_second = 1
    /\ nCalls = 3
    /\ last.result
    /\ admitted[CHOOSE o \in Keys : o # last.key] = <<>>
    /\ Len(admitted[last.key]) = 2
    /\ last.now = admitted[last.key][1] + SecondWindow

(* C5: allow(k1) leaves the queues of every other key unchanged, and the   *)
(* queues of each key (hence every result) are those of a limiter that     *)
(* only ever received the calls made with that key.                        *)
C5_KeysIndependent ==
    [][ /\ IsAllowStep =>
            \A k \in Keys \ {last'.key} :
                /\ secHits'[k] = secHits[k]
                /\ hourHits'[k] = hourHits[k]
                /\ dayHits'[k] = dayHits[k]
        /\ \A k \in Keys : QueuesOf(k)' = solo'[k] ]_vars

(* C5 witness: one key is admitted and then denied, and the other key is  *)
(* admitted at the same instant.                                           *)
C5_Witness ==
    /\ nCalls = 3
    /\ last.result
    /\ Len(admitted[last.key]) = 1
    /\ \E o \in Keys \ {last.key} : admitted[o] = <<last.now>>

(* C6: a denied allow(key) appends nothing (the queues keep exactly their  *)
(* live hits), and the live hits of every key, hence every later result,   *)
(* are those of a limiter on which no denied call was ever made.           *)
C6_DeniedRecordsNothing ==
    [][ /\ (IsAllowStep /\ ~last'.result) =>
            LET k == last'.key
                now == last'.now
            IN  /\ secHits'[k] = Live(secHits[k], now, SecondWindow)
                /\ hourHits'[k] = Live(hourHits[k], now, HourWindow)
                /\ dayHits'[k] = Live(dayHits[k], now, DayWindow)
        /\ \A k \in Keys :
              /\ Live(secHits'[k], clock', SecondWindow)
                    = Live(lazy'[k].sec, clock', SecondWindow)
              /\ Live(hourHits'[k], clock', HourWindow)
                    = Live(lazy'[k].hour, clock', HourWindow)
              /\ Live(dayHits'[k], clock', DayWindow)
                    = Live(lazy'[k].day, clock', DayWindow) ]_vars

(* C6 witness: a key is admitted, denied, and admitted again after the     *)
(* clock has moved on.                                                     *)
C6_Witness ==
    /\ nCalls = 3
    /\ last.result
    /\ admitted[CHOOSE o \in Keys : o # last.key] = <<>>
    /\ Len(admitted[last.key]) = 2
    /\ admitted[last.key][1] < last.now

-----------------------------------------------------------------------------
(* PortfolioState (src/src/portfolio.py) and strategy configuration *)

SELL_COOLDOWN_MIN == 120

TicksPerMinute == 60 * TicksPerSecond

Max(a, b) == IF a >= b THEN a ELSE b
Min(a, b) == IF a <= b THEN a ELSE b

(* get_sell_cooldown_min: the configured minutes, never negative. *)
get_sell_cooldown_min == Max(0, env.SELL_COOLDOWN_MIN)

(* get_last_sell_ts: keyed by the upper-cased symbol. *)
get_last_sell_ts(symbol) == last_sell_ts[upper(symbol)]

(* record_sell_fill(symbol, fill_ts) *)
record_sell_fill(symbol, fill_ts) ==
    /\ coordCall = NoCoordCall
    /\ execCall = NoExecCall
    /\ last_sell_ts' = [last_sell_ts EXCEPT ![upper(symbol)] = fill_ts]
    /\ UNCHANGED <<rlVars, exVars, env, coordCall, riskCall, thVars, crVars>>

-----------------------------------------------------------------------------
(* Pydantic models (src/src/crewai_models.py) and coordinate_tool *)

Actions == {"BUY", "SELL", "HOLD"}

(* DecisionModel declares action, symbol and reason only; a keyword that   *)
(* names no declared field (confidence) is ignored by the constructor.     *)
DecisionModel(action, symbol, reason, confidence) ==
    [action |-> action, symbol |-> symbol, reason |-> reason]

(* RiskResult declares status and reason only. *)
RiskResult(status, reason, confidence) ==
    [status |-> status, reason |-> reason]

(* Whether reading obj.<name> succeeds (else AttributeError). *)
HasAttr(obj, name) == name \in DOMAIN obj

AttributeError == [raised |-> "AttributeError"]
Returned(value) == [raised |-> None, value |-> value]

(* _clamp_confidence, in hundredths. *)
_clamp_confidence(value) ==
    IF value = NoneNum THEN 50 ELSE Max(0, Min(100, value))

(* _weighted_confidence, in ten-thousandths:                               *)
(* 0.30 * market + 0.45 * valuation + 0.25 * risk.                         *)
_weighted_confidence(market_conf, valuation_conf, risk_conf) ==
    30 * market_conf + 45 * valuation_conf + 25 * risk_conf

(* _apply_buy_cooldown_confidence: cap at 0.4 inside the sell cooldown. *)
_apply_buy_cooldown_confidence(symbol, snapshot_ts, valuation_confidence) ==
    IF symbol = None THEN valuation_confidence
    ELSE IF get_last_sell_ts(symbol) = NoneNum THEN valuation_confidence
    ELSE IF snapshot_ts - get_last_sell_ts(symbol)
              < get_sell_cooldown_min * TicksPerMinute
         THEN Min(valuation_confidence, 40)
         ELSE valuation_confidence

(* The tail of every HOLD reason: both upstream decisions verbatim. *)
Upstream(market, valuation) ==
    <<market.action, market.reason, valuation.action, valuation.reason>>

(* coordinate_tool once the three confidences have been read. *)
Coordinated(snapshot, market, valuation, risk) ==
    LET market_conf == _clamp_confidence(market.confidence)
        valuation_conf == _clamp_confidence(valuation.confidence)
        risk_conf == _clamp_confidence(risk.confidence)
        effective_valuation_conf ==
            IF valuation.action = "BUY"
            THEN _apply_buy_cooldown_confidence(
                     valuation.symbol, snapshot.timestamp, valuation_conf)
            ELSE valuation_conf
        final_confidence ==
            _weighted_confidence(market_conf, effective_valuation_conf, risk_conf)
    IN  IF risk.status = "VETO"
        THEN DecisionModel("HOLD", None,
                 <<"risk veto", risk.reason>> \o Upstream(market, valuation),
                 _weighted_confidence(market_conf, valuation_conf, 100))
        ELSE IF valuation.action = "SELL"
        THEN DecisionModel("SELL", valuation.symbol, valuation.reason,
                           final_confidence)
        ELSE IF valuation.action = "BUY"
        THEN IF effective_valuation_conf < 60 \/ final_confidence < 6500
             THEN DecisionModel("HOLD", None,
                      <<"buy confidence too low", effective_valuation_conf,
                        final_confidence>> \o Upstream(market, valuation),
                      final_confidence)
             ELSE IF market.action = "SELL"
             THEN DecisionModel("HOLD", None,
                      <<"buy blocked by market sell">>
                          \o Upstream(market, valuation),
                      final_confidence)
             ELSE DecisionModel("BUY", valuation.symbol, valuation.reason,
                                final_confidence)
        ELSE DecisionModel("HOLD", None,
                 <<"no actionable signal">> \o Upstream(market, valuation),
                 final_confidence)

(* coordinate_tool: its first three statements read market.confidence,     *)
(* valuation.confidence and risk.confidence.                               *)
coordinate_tool(snapshot, market, valuation, risk) ==
    IF /\ HasAttr(market, "confidence")
       /\ HasAttr(valuation, "confidence")
       /\ HasAttr(risk, "confidence")
    THEN Returned(Coordinated(snapshot, market, valuation, risk))
    ELSE AttributeError

(* Inputs of coordinate_tool: what the constructors build from any action, *)
(* symbol, reason and confidence.                                          *)
Confidences == {NoneNum, 0, 40, 60, 61, 82, 90, 100}
MarketReasons == {"neutral"}
ValuationReasons == {"undervalued", "take profit hit"}
RiskReasons == {"checks passed", "insufficient cash", "market closed"}

MarketDecisions ==
    {DecisionModel(a, s, r, c) :
        a \in Actions, s \in Spellings \cup {None}, r \in MarketReasons,
        c \in Confidences}
ValuationDecisions ==
    {DecisionModel(a, s, r, c) :
        a \in Actions, s \in Spellings \cup {None}, r \in ValuationReasons,
        c \in Confidences}
RiskResults ==
    {RiskResult(st, r, c) :
        st \in {"APPROVE", "VETO"}, r \in RiskReasons, c \in Confidences}

(* Snapshot timestamps: at a sell fill, inside the cooldown, at its end. *)
SnapshotTimes ==
    {0, SELL_COOLDOWN_MIN * TicksPerMinute - 1, SELL_COOLDOWN_MIN * TicksPerMinute}

(* A call coordinate_tool(snapshot, market, valuation, risk). *)
Coordinate(snapshot, market, valuation, risk) ==
    /\ coordCall = NoCoordCall
    /\ coordCall' = [called |-> TRUE, snapshot |-> snapshot, market |-> market,
                     valuation |-> valuation, risk |-> risk,
                     result |-> coordinate_tool(snapshot, market, valuation, risk)]
    /\ UNCHANGED <<rlVars, exVars, env, last_sell_ts, riskCall, thVars, crVars>>

(* The caller takes the outcome of the call. *)
ReturnToCaller ==
    /\ coordCall # NoCoordCall
    /\ coordCall' = NoCoordCall
    /\ UNCHANGED <<rlVars, exVars, env, last_sell_ts, riskCall, thVars, crVars>>

InitCoord ==
    /\ NewLimiter
    /\ per_second = 1
    /\ per_hour = 1
    /\ per_day = 1
    /\ last_sell_ts = [s \in Symbols |-> NoneNum]
    /\ env = DefaultEnv
    /\ coordCall = NoCoordCall
    /\ riskCall = NoRiskCall
    /\ IdleCrew
    /\ IdleExecutor

NextCoord ==
    \/ \E ts \in SnapshotTimes, market \in MarketDecisions,
          valuation \in ValuationDecisions, risk \in RiskResults :
            Coordinate([timestamp |-> ts], market, valuation, risk)
    \/ \E symbol \in Spellings : record_sell_fill(symbol, 0)
    \/ ReturnToCaller

SpecCoord == InitCoord /\ [][NextCoord]_vars

-----------------------------------------------------------------------------
(* Properties of coordinate_tool *)

(* C1: whenever the RiskGate result is VETO, coordinate_tool returns HOLD  *)
(* with no symbol and a reason that carries "risk veto: <risk reason>".    *)
C1_VetoForcesHold ==
    (coordCall.called /\ coordCall.risk.status = "VETO") =>
        /\ coordCall.result.raised = None
        /\ coordCall.result.value.action = "HOLD"
        /\ coordCall.result.value.symbol = None
        /\ coordCall.result.value.reason[1] = "risk veto"
        /\ coordCall.result.value.reason[2] = coordCall.risk.reason

(* C11: when the RiskGate result is not VETO and Valuation's action is     *)
(* SELL, the final decision is SELL for Valuation's symbol, whatever       *)
(* Momentum says and whatever the confidences.                             *)
C11_ValuationSellWins ==
    (/\ coordCall.called
     /\ coordCall.risk.status # "VETO"
     /\ coordCall.valuation.action = "SELL") =>
        /\ coordCall.result.raised = None
        /\ coordCall.result.value.action = "SELL"
        /\ coordCall.result.value.symbol = coordCall.valuation.symbol

(* The BUY confirmation rule on the observed call: effective valuation     *)
(* confidence >= 0.6, weighted final confidence >= 0.65, Momentum not SELL.*)
BuyConfirmed ==
    LET market_conf == _clamp_confidence(coordCall.market.confidence)
        valuation_conf == _clamp_confidence(coordCall.valuation.confidence)
        risk_conf == _clamp_confidence(coordCall.risk.confidence)
        effective == _apply_buy_cooldown_confidence(coordCall.valuation.symbol,
                         coordCall.snapshot.timestamp, valuation_conf)
    IN  /\ effective >= 60
        /\ _weighted_confidence(market_conf, effective, risk_conf) >= 6500
        /\ coordCall.market.action # "SELL"

(* C12: when risk is APPROVE and Valuation's action is BUY, the final      *)
(* decision is BUY for Valuation's symbol iff the BUY is confirmed; in     *)
(* every other case it is HOLD with no symbol.                             *)
C12_BuyConfirmation ==
    (/\ coordCall.called
     /\ coordCall.risk.status = "APPROVE"
     /\ coordCall.valuation.action = "BUY") =>
        /\ coordCall.result.raised = None
        /\ IF BuyConfirmed
           THEN /\ coordCall.result.value.action = "BUY"
                /\ coordCall.result.value.symbol = coordCall.valuation.symbol
           ELSE /\ coordCall.result.value.action = "HOLD"
                /\ coordCall.result.value.symbol = None

(* The observed call proposes a BUY of a symbol whose last sell fill is    *)
(* less than SELL_COOLDOWN_MIN minutes before the snapshot timestamp.      *)
BuyInsideSellCooldown ==
    /\ coordCall.called
    /\ coordCall.valuation.action = "BUY"
    /\ coordCall.valuation.symbol # None
    /\ get_last_sell_ts(coordCall.valuation.symbol) # NoneNum
    /\ coordCall.snapshot.timestamp - get_last_sell_ts(coordCall.valuation.symbol)
          < get_sell_cooldown_min * TicksPerMinute

(* C13: after record_sell_fill(s, t), for every snapshot timestamp inside  *)
(* the sell cooldown coordinate_tool returns a decision that is not a BUY  *)
(* of s, whatever the raw confidences.                                     *)
C13_SellCooldownDemotesBuy ==
    BuyInsideSellCooldown =>
        /\ coordCall.result.raised = None
        /\ coordCall.result.value.action = "HOLD"
        /\ coordCall.result.value.symbol = None

(* The weighted sum of three clamped confidences stays between 0 and 1    *)
(* (ten-thousandths), whatever the raw values.                             *)
WeightedConfidenceInRange ==
    \A m \in Confidences \cup {-20, 130}, v \in Confidences \cup {-20, 130},
       r \in Confidences \cup {-20, 130} :
        LET w == _weighted_confidence(_clamp_confidence(m),
                     _clamp_confidence(v), _clamp_confidence(r))
        IN  w >= 0 /\ w <= 10000

(* C31: every decision returned by coordinate_tool carries the confidence  *)
(* 0.30*market + 0.45*valuation(effective) + 0.25*risk of the clamped      *)
(* inputs (risk counts as 1.0 on VETO), which lies in [0,1], and every     *)
(* returned BUY has confidence >= 0.65.                                    *)
C31_WeightedConfidence ==
    coordCall.called =>
        /\ coordCall.result.raised = None
        /\ HasAttr(coordCall.result.value, "confidence")
        /\ HasAttr(coordCall.market, "confidence")
        /\ HasAttr(coordCall.valuation, "confidence")
        /\ HasAttr(coordCall.risk, "confidence")
        /\ LET market_conf == _clamp_confidence(coordCall.market.confidence)
               valuation_conf == _clamp_confidence(coordCall.valuation.confidence)
               risk_conf == _clamp_confidence(coordCall.risk.confidence)
               effective ==
                   IF coordCall.valuation.action = "BUY"
                   THEN _apply_buy_cooldown_confidence(
                            coordCall.valuation.symbol,
                            coordCall.snapshot.timestamp, valuation_conf)
                   ELSE valuation_conf
               expected ==
                   IF coordCall.risk.status = "VETO"
                   THEN _weighted_confidence(market_conf, valuation_conf, 100)
                   ELSE _weighted_confidence(market_conf, effective, risk_conf)
           IN  /\ coordCall.result.value.confidence = expected
               /\ expected >= 0 /\ expected <= 10000
               /\ coordCall.result.value.action = "BUY" => expected >= 6500

(* C32: the final action is BUY (resp. SELL) only if Valuation's action is *)
(* BUY (resp. SELL) and the final symbol is Valuation's; when Valuation is *)
(* HOLD the call returns HOLD whatever Momentum proposes.                  *)
C32_OnlyValuationTriggers ==
    coordCall.called =>
        /\ coordCall.valuation.action \notin {"BUY", "SELL"} =>
              /\ coordCall.result.raised = None
              /\ coordCall.result.value.action = "HOLD"
        /\ (/\ coordCall.result.raised = None
            /\ coordCall.result.value.action \in {"BUY", "SELL"}) =>
              /\ coordCall.valuation.action = coordCall.result.value.action
              /\ coordCall.result.value.symbol = coordCall.valuation.symbol

(* No call of coordinate_tool returns a decision. *)
CoordinateAlwaysRaises ==
    coordCall.called => coordCall.result.raised = "AttributeError"


-----------------------------------------------------------------------------
(* TradeExecutor (src/src/trade_executor.py) *)

Get(map, key, default) == IF key \in DOMAIN map THEN map[key] ELSE default

(* _read_limits: the environment's numbers with their fallbacks. *)
_read_limits ==
    [max_position_percent |->
         IF env.MAX_POSITION_PERCENT <= 0 THEN 20 ELSE env.MAX_POSITION_PERCENT,
     max_shares_per_trade |->
         IF env.MAX_SHARES_PER_TRADE <= 0 THEN 1 ELSE env.MAX_SHARES_PER_TRADE,
     buy_cooldown_seconds |->
         IF env.BUY_COOLDOWN_SECONDS < 0 THEN 0 ELSE env.BUY_COOLDOWN_SECONDS,
     price_move_bypass_pct |->
         IF env.PRICE_MOVE_BYPASS_PCT < 0 THEN 0 ELSE env.PRICE_MOVE_BYPASS_PCT,
     enable_open_order_guard |-> env.ENABLE_OPEN_ORDER_GUARD = "1"]

(* sum(qty * snapshot.prices.get(pos_symbol, 0.0) for ... in positions). *)
RECURSIVE PositionsValue(_, _)
PositionsValue(snapshot, symbols) ==
    IF symbols = {} THEN 0
    ELSE LET sym == CHOOSE x \in symbols : TRUE
         IN  snapshot.positions[sym] * Get(snapshot.prices, sym, 0)
               + PositionsValue(snapshot, symbols \ {sym})

(* Variant of _apply_position_cap that forgets the shares already held. *)
_apply_position_cap_ignores_held(snapshot, symbol, latest_price, buy_qty, max_position_percent) ==
    LET portfolio_value ==
            snapshot.cash + PositionsValue(snapshot, DOMAIN snapshot.positions)
        max_qty_by_cap ==
            (max_position_percent * portfolio_value) \div (100 * latest_price)
    IN  IF latest_price <= 0 \/ max_position_percent <= 0 THEN 0
        ELSE IF portfolio_value <= 0 THEN 0
        ELSE IF max_qty_by_cap <= 0 THEN 0
        ELSE Min(buy_qty, max_qty_by_cap)

(* _apply_position_cap: shares still allowed under max_position_percent.   *)
(* remaining_value // latest_price is computed on the numerator and        *)
(* denominator multiplied by 100.                                          *)
_apply_position_cap(snapshot, symbol, latest_price, buy_qty, max_position_percent) ==
    LET portfolio_value ==
            snapshot.cash + PositionsValue(snapshot, DOMAIN snapshot.positions)
        current_qty == Get(snapshot.positions, symbol, 0)
        remaining_value_x100 ==
            max_position_percent * portfolio_value
              - 100 * current_qty * latest_price
        max_qty_by_cap == remaining_value_x100 \div (100 * latest_price)
    IN  IF latest_price <= 0 \/ max_position_percent <= 0 THEN 0
        ELSE IF portfolio_value <= 0 THEN 0
        ELSE IF remaining_value_x100 <= 0 THEN 0
        ELSE IF max_qty_by_cap <= 0 THEN 0
        ELSE Min(buy_qty, max_qty_by_cap)

Abs(x) == IF x < 0 THEN -x ELSE x

(* Variant of _is_buy_in_cooldown without the price-move bypass. *)
_is_buy_in_cooldown_no_bypass(symbol, now, latest_price, cooldown_seconds, bypass_pct) ==
    LET previous == last_order[<<symbol, "BUY">>]
    IN  IF previous = NoRecord THEN FALSE
        ELSE now - previous[1] < cooldown_seconds * TicksPerSecond

(* _is_buy_in_cooldown: move_pct < bypass_pct is compared after            *)
(* multiplying both sides by last_trade_price.                             *)
_is_buy_in_cooldown(symbol, now, latest_price, cooldown_seconds, bypass_pct) ==
    LET previous == last_order[<<symbol, "BUY">>]
    IN  IF previous = NoRecord THEN FALSE
        ELSE IF now - previous[1] >= cooldown_seconds * TicksPerSecond THEN FALSE
        ELSE IF previous[2] <= 0 THEN TRUE
        ELSE IF Abs(latest_price - previous[2]) * 100 < bypass_pct * previous[2]
             THEN TRUE
             ELSE FALSE

(* The client's answer to an open-order query for (symbol, side). *)
ClientHasOpen(api_client, symbol, side) ==
    \E o \in api_client.orders : o.symbol = symbol /\ o.side = side

(* The open-status test of the list_orders loop. *)
ListedOpen(api_client, symbol, side) ==
    \E o \in api_client.orders :
        /\ upper(o.symbol) = symbol
        /\ o.side = side
        /\ o.status \in {"", "open", "new", "accepted", "partially_filled",
                         "pending_new"}

(* api_client is None *)
NoClient == [lookup |-> None, query |-> "ok", orders |-> {}, submit |-> "ok"]

(* Variant of _has_open_order that matches an open order of the symbol on  *)
(* either side.                                                            *)
_has_open_order_any_side(api_client, symbol, side) ==
    IF api_client = NoClient THEN FALSE
    ELSE \E o \in api_client.orders : upper(o.symbol) = symbol

(* _has_open_order: TRUE, FALSE, or Raise when the positional retry of     *)
(* has_open_order raises (that call is outside every except clause).       *)
Raise == "raise"
_has_open_order(api_client, symbol, side) ==
    IF api_client = NoClient THEN FALSE
    ELSE IF api_client.lookup = "has_open_order"
    THEN CASE api_client.query = "ok" -> ClientHasOpen(api_client, symbol, side)
           [] api_client.query = "TypeError" -> ClientHasOpen(api_client, symbol, side)
           [] api_client.query = "TypeError, Exception" -> Raise
           [] OTHER -> FALSE
    ELSE IF api_client.lookup = "list_open_orders"
    THEN CASE api_client.query = "ok" -> ClientHasOpen(api_client, symbol, side)
           [] api_client.query = "TypeError" -> ClientHasOpen(api_client, symbol, side)
           [] OTHER -> FALSE
    ELSE IF api_client.lookup # "list_orders" THEN FALSE
    ELSE CASE api_client.query = "ok" -> ListedOpen(api_client, symbol, side)
           [] api_client.query = "TypeError" -> ListedOpen(api_client, symbol, side)
           [] OTHER -> FALSE

(* Whether the call _has_open_order(api_client, ...) raises. *)
LookupRaises(api_client) ==
    /\ api_client # NoClient
    /\ api_client.lookup = "has_open_order"
    /\ api_client.query = "TypeError, Exception"

(* Release instants of a key's hits: when each leaves its window. *)
ReleaseTimes(q) ==
    {q.sec[i] + SecondWindow : i \in 1 .. Len(q.sec)}
      \cup {q.hour[i] + HourWindow : i \in 1 .. Len(q.hour)}
      \cup {q.day[i] + DayWindow : i \in 1 .. Len(q.day)}

(* Variant of _wait_for_rate_limit that returns without polling. *)
_wait_for_rate_limit_no_wait(key, now) == now

(* _wait_for_rate_limit: the instant of the first poll that allow()        *)
(* admits, polling every tick (time.sleep(0.2)) from now on.               *)
_wait_for_rate_limit(key, now) ==
    IF rate_limiter = None THEN now
    ELSE LET polls == {t \in {now} \cup ReleaseTimes(QueuesOf(key)) :
                          t >= now /\ AllowOn(QueuesOf(key), t)[1]}
         IN  CHOOSE t \in polls : \A u \in polls : t <= u

(* time.time() has reached now; the limiter is not touched. *)
Elapse(now) ==
    /\ clock' = now
    /\ UNCHANGED <<per_second, per_hour, per_day, secHits, hourHits, dayHits,
                   last, admitted, solo, lazy, nCalls, nTicks>>

(* The limiter after _wait_for_rate_limit(key) returned at instant t. *)
Admit(key, now, t) ==
    IF rate_limiter = None
    THEN Elapse(now)
    ELSE /\ StoreHits(key, AllowOn(QueuesOf(key), t)[2])
         /\ clock' = t
         /\ last' = [key |-> key, now |-> t, result |-> TRUE]
         /\ admitted' = [admitted EXCEPT ![key] = Append(@, t)]
         /\ solo' = [solo EXCEPT ![key] = AllowOn(@, t)[2]]
         /\ lazy' = [lazy EXCEPT ![key] = AllowOn(@, t)[2]]
         /\ nCalls' = nCalls + (t - now) + 1
         /\ UNCHANGED <<per_second, per_hour, per_day, nTicks>>

SubmitKey == "executor:submit_order"

(* What one call of execute_action did: outcome, the order it logged as    *)
(* would-be or submitted, and how many times it called submit_order.       *)
Outcome(kind, qty, submits) == [kind |-> kind, qty |-> qty, submits |-> submits]

(* Variant of the execution-mode test that submits in dry-run too. *)
IsDryRun_never == FALSE

(* os.getenv("EXECUTE", "").strip() != "1" *)
IsDryRun == env.EXECUTE # "1"

(* Variant of the max-shares step that leaves the quantity as it is. *)
ClampToMaxShares_off(qty, max_shares_per_trade) == qty

(* if qty > limits.max_shares_per_trade: qty = limits.max_shares_per_trade *)
ClampToMaxShares(qty, max_shares_per_trade) ==
    IF qty > max_shares_per_trade THEN max_shares_per_trade ELSE qty

(* Variant of the submission step without the except clause: the client's  *)
(* exception leaves execute_action.                                        *)
SubmitOutcome_propagates(api_client) ==
    IF api_client.submit = "ok" THEN "ORDER_SENT" ELSE "RAISED"

(* try: submit_order(...) ... except Exception: the order was sent, or the *)
(* client's exception was caught and logged.                               *)
SubmitOutcome(api_client) ==
    IF api_client.submit = "ok" THEN "ORDER_SENT" ELSE "SUBMIT_FAILED"

(* Variant of the cooldown step that is applied to either side. *)
CooldownApplies_any_side(action) == TRUE

(* if action.action == TradeAction.BUY: the price test, the cooldown and   *)
(* the position cap stand inside this block.                               *)
CooldownApplies(action) == action.action = "BUY"

(* execute_action up to the point where the order is sized: the outcome    *)
(* of a call that stops early, or "SIZED" with the final quantity.         *)
Sized(api_client, snapshot, action, now) ==
    IF action.action = "HOLD" THEN Outcome("HOLD", 0, 0)
    ELSE IF action.symbol \in {None, ""} \/ action.qty <= 0
    THEN Outcome("INVALID", 0, 0)
    ELSE
    LET symbol == upper(action.symbol)
        limits == _read_limits
        side == IF action.action = "BUY" THEN "buy" ELSE "sell"
        latest_price == Get(snapshot.prices, symbol, 0)
        open == IF limits.enable_open_order_guard
                THEN _has_open_order(api_client, symbol, side)
                ELSE FALSE
        capped == IF action.action = "BUY"
                  THEN _apply_position_cap(snapshot, symbol, latest_price,
                           action.qty, limits.max_position_percent)
                  ELSE action.qty
        qty == ClampToMaxShares(capped, limits.max_shares_per_trade)
    IN  IF limits.enable_open_order_guard /\ LookupRaises(api_client)
        THEN Outcome("RAISED", 0, 0)
        ELSE IF open THEN Outcome("SKIP_OPEN_ORDER", 0, 0)
        ELSE IF action.action = "BUY" /\ latest_price <= 0
        THEN Outcome("SKIP_PRICE", 0, 0)
        ELSE IF /\ CooldownApplies(action)
                /\ _is_buy_in_cooldown(symbol, now, latest_price,
                       limits.buy_cooldown_seconds, limits.price_move_bypass_pct)
        THEN Outcome("SKIP_COOLDOWN", 0, 0)
        ELSE IF action.action = "BUY" /\ capped < 1
        THEN Outcome("SKIP_CAP", 0, 0)
        ELSE IF qty < 1 THEN Outcome("SKIP_QTY", 0, 0)
        ELSE Outcome("SIZED", qty, 0)

(* Variant of the cooldown record that is written only when an order is    *)
(* about to be submitted.                                                  *)
RecordAttempt_live_only(record, key, now, latest_price, live) ==
    IF live THEN [record EXCEPT ![key] = <<now, latest_price>>] ELSE record

(* _last_order_by_symbol_side[(symbol, action.action)] = (now,             *)
(* latest_price): the statement stands before the EXECUTE test, so it runs *)
(* whether or not an order is about to be submitted (live).                *)
RecordAttempt(record, key, now, latest_price, live) ==
    [record EXCEPT ![key] = <<now, latest_price>>]

(* Clock readings: time.time() since the previous reading has not moved,  *)
(* is inside the buy cooldown, or lands on its end.                        *)
ExecClockSteps == {0, 1, 60 * TicksPerSecond - 1}

(* execute_action(api_client, snapshot, action); now is what time.time()   *)
(* returns during the call.                                                *)
ExecuteBody(api_client, snapshot, action) ==
    /\ nExec < MaxExec
    /\ execCall = NoExecCall
    /\ nExec' = nExec + 1
    /\ \E now \in {clock + d : d \in ExecClockSteps} :
        LET sized == Sized(api_client, snapshot, action, now)
            symbol == upper(action.symbol)
            latest_price == Get(snapshot.prices, symbol, 0)
            observed == [called |-> TRUE, api_client |-> api_client,
                         snapshot |-> snapshot, action |-> action, now |-> now,
                         previous |-> Get(last_order, <<symbol, "BUY">>, NoRecord)]
        IN  IF sized.kind # "SIZED"
            THEN /\ execCall' = observed @@ [outcome |-> sized]
                 /\ Elapse(now)
                 /\ UNCHANGED last_order
            ELSE /\ last_order' = RecordAttempt(last_order,
                                     <<symbol, action.action>>, now, latest_price,
                                     ~IsDryRun /\ api_client # NoClient)
                 /\ IF IsDryRun
                    THEN /\ execCall' = observed @@
                                [outcome |-> Outcome("DRY_RUN", sized.qty, 0)]
                         /\ Elapse(now)
                    ELSE IF api_client = NoClient
                    THEN /\ execCall' = observed @@
                                [outcome |-> Outcome("NO_CLIENT", sized.qty, 0)]
                         /\ Elapse(now)
                    ELSE /\ Admit(SubmitKey, now, _wait_for_rate_limit(SubmitKey, now))
                         /\ execCall' = observed @@
                                [outcome |-> Outcome(SubmitOutcome(api_client),
                                                     sized.qty, 1)]

(* A call execute_action(api_client, snapshot, action). *)
execute_action(api_client, snapshot, action) ==
    /\ ExecuteBody(api_client, snapshot, action)
    /\ UNCHANGED <<coVars, env, rate_limiter, thVars, crVars>>

(* The caller takes the outcome of execute_action. *)
ExecReturn ==
    /\ execCall # NoExecCall
    /\ execCall' = NoExecCall
    /\ UNCHANGED <<rlVars, coVars, env, rate_limiter, last_order, nExec, thVars, crVars>>

(* Inputs of execute_action. *)
Decision(action, symbol, qty, reason) ==
    [action |-> action, symbol |-> symbol, qty |-> qty, reason |-> reason]

Decisions ==
    {Decision("HOLD", None, 0, "hold"),
     Decision("BUY", "pltr", 5, "buy"),
     Decision("BUY", "pltr", 0, "buy"),
     Decision("BUY", "NFLX", 1, "buy"),
     Decision("SELL", "pltr", 5, "sell")}

Snapshot(prices, cash, positions) ==
    [timestamp |-> clock, prices |-> prices, cash |-> cash, positions |-> positions]

(* Prices and cash in half dollars: 200 is $100, 201 is $100.50. *)
Snapshots ==
    {Snapshot([PLTR |-> p, NFLX |-> 400], 2000, [PLTR |-> 0, NFLX |-> 0]) :
        p \in {200, 201, 202}}
      \cup {Snapshot([PLTR |-> 200, NFLX |-> 400], 2000, [PLTR |-> 2, NFLX |-> 5]),
            Snapshot([s \in {"NFLX"} |-> 400], 0, [s \in {} |-> 0])}

Order(symbol, side, status) == [symbol |-> symbol, side |-> side, status |-> status]
Client(lookup, query, orders, submit) ==
    [lookup |-> lookup, query |-> query, orders |-> orders, submit |-> submit]
Clients ==
    {NoClient,
     Client("list_orders", "ok", {Order("PLTR", "buy", "open")}, "ok"),
     Client("none", "ok", {}, "Exception")}

(* Environments: the tests' settings, and values that take the fallbacks. *)
Environment(execute, pct, shares, cooldown, bypass, guard) ==
    [EXECUTE |-> execute, MAX_POSITION_PERCENT |-> pct,
     MAX_SHARES_PER_TRADE |-> shares, BUY_COOLDOWN_SECONDS |-> cooldown,
     PRICE_MOVE_BYPASS_PCT |-> bypass, ENABLE_OPEN_ORDER_GUARD |-> guard,
     SELL_COOLDOWN_MIN |-> 120]

(* The executor's settings at start-up: environment and rate limiter. *)
Setups ==
    {<<Environment("0", 28, 3, 60, 1, "0"), "RateLimiter">>,
     <<Environment("0", 20, 10, 60, 0, "0"), "RateLimiter">>,
     <<Environment("1", 20, 10, 60, 1, "0"), "RateLimiter">>,
     <<Environment("1", 50, 0, -1, 1, "1"), "RateLimiter">>,
     <<Environment("1", 20, 10, 60, 1, "0"), None>>}

InitExec ==
    /\ NewLimiter
    /\ per_second = 1
    /\ per_hour = 1000
    /\ per_day = 5000
    /\ last_sell_ts = [s \in Symbols |-> NoneNum]
    /\ \E setup \in Setups : env = setup[1] /\ rate_limiter = setup[2]
    /\ coordCall = NoCoordCall
    /\ riskCall = NoRiskCall
    /\ IdleCrew
    /\ last_order = [k \in OrderKeys |-> NoRecord]
    /\ execCall = NoExecCall
    /\ nExec = 0

NextExec ==
    \/ \E api_client \in Clients, snapshot \in Snapshots, action \in Decisions :
          execute_action(api_client, snapshot, action)
    \/ ExecReturn

SpecExec == InitExec /\ [][NextExec]_vars

(* The executor together with the portfolio state: a sell fill is recorded *)
(* between two calls, dated one tick inside the sell cooldown or exactly   *)
(* at its end.                                                             *)
SellFillAges ==
    {get_sell_cooldown_min * TicksPerMinute - 1, get_sell_cooldown_min * TicksPerMinute}

InitReentry ==
    /\ InitExec
    /\ env.EXECUTE = "1"

NextReentry ==
    \/ NextExec
    \/ \E age \in SellFillAges :
          /\ last_sell_ts["PLTR"] = NoneNum
          /\ record_sell_fill("pltr", clock - age)

SpecReentry == InitReentry /\ [][NextReentry]_vars

-----------------------------------------------------------------------------
(* Properties of execute_action *)

(* Outcomes of a call that passed every guard: the order was logged as     *)
(* would-be (dry-run), dropped for want of a client, or handed to          *)
(* submit_order.                                                           *)
Proceeded == {"DRY_RUN", "NO_CLIENT", "ORDER_SENT", "SUBMIT_FAILED"}

(* The observed call's symbol, price, held quantity and portfolio value. *)
CallSymbol == upper(execCall.action.symbol)
CallPrice == Get(execCall.snapshot.prices, CallSymbol, 0)
CallHeld == Get(execCall.snapshot.positions, CallSymbol, 0)
CallTotal ==
    execCall.snapshot.cash
      + PositionsValue(execCall.snapshot, DOMAIN execCall.snapshot.positions)

NoHits(key) ==
    /\ secHits[key] = <<>>
    /\ hourHits[key] = <<>>
    /\ dayHits[key] = <<>>
    /\ admitted[key] = <<>>

(* C7: in dry-run mode (EXECUTE is not "1") no call of execute_action      *)
(* calls submit_order and none consumes rate-limiter allowance: the        *)
(* limiter's queues stay empty whatever the decision, snapshot and client. *)
C7_DryRunNeverSubmits ==
    env.EXECUTE # "1" =>
        /\ execCall.called => execCall.outcome.submits = 0
        /\ execCall.called => execCall.outcome.kind \notin {"ORDER_SENT", "SUBMIT_FAILED"}
        /\ \A key \in Keys : NoHits(key)

(* A dry-run call that passed all guards, with a rate limiter configured. *)
C7_Witness ==
    /\ env.EXECUTE # "1"
    /\ rate_limiter # None
    /\ execCall.called
    /\ execCall.outcome.kind = "DRY_RUN"
    /\ execCall.api_client # NoClient
    /\ nExec = MaxExec

(* C8: a SELL for a symbol whose snapshot position is 0 is always skipped: *)
(* no order is submitted in live mode and none is logged as would-be in    *)
(* dry-run.                                                                *)
C8_SellWithoutPositionSkipped ==
    (/\ execCall.called
     /\ execCall.action.action = "SELL"
     /\ execCall.action.symbol # None
     /\ CallHeld = 0) =>
        /\ execCall.outcome.kind \notin Proceeded
        /\ execCall.outcome.submits = 0

(* C14: after execute_action has successfully submitted a live SELL for   *)
(* symbol s, PortfolioState.last_sell_ts[s] holds the time of that sell.   *)
C14_SellFillRecorded ==
    (/\ execCall.called
     /\ execCall.action.action = "SELL"
     /\ execCall.outcome.kind = "ORDER_SENT") =>
        /\ last_sell_ts[CallSymbol] # NoneNum
        /\ last_sell_ts[CallSymbol] >= execCall.now

(* C15: execute_action submits no BUY for symbol s when a sell fill of s   *)
(* is recorded less than SELL_COOLDOWN_MIN minutes before the snapshot     *)
(* timestamp, and does not block it for that reason once the cooldown has  *)
(* elapsed.                                                                *)
C15_BuyBlockedInSellCooldown ==
    (/\ execCall.called
     /\ execCall.action.action = "BUY"
     /\ execCall.action.symbol # None
     /\ last_sell_ts[CallSymbol] # NoneNum
     /\ execCall.snapshot.timestamp - last_sell_ts[CallSymbol]
           < get_sell_cooldown_min * TicksPerMinute) =>
        /\ execCall.outcome.submits = 0
        /\ execCall.outcome.kind \notin Proceeded

(* The client of the observed call reports an open order for the           *)
(* decision's symbol and side.                                             *)
CallSide == IF execCall.action.action = "BUY" THEN "buy" ELSE "sell"
ReportsSameOrder ==
    \E o \in execCall.api_client.orders :
        /\ upper(o.symbol) = CallSymbol
        /\ o.side = CallSide
        /\ o.status = "open"

(* A call whose decision is a BUY or SELL with a symbol and a positive qty. *)
ValidCall ==
    /\ execCall.called
    /\ execCall.action.action \in {"BUY", "SELL"}
    /\ execCall.action.symbol \notin {None, ""}
    /\ execCall.action.qty > 0

(* C16: with ENABLE_OPEN_ORDER_GUARD on, a decision for which the client   *)
(* reports an open order of the same symbol and side is skipped without a  *)
(* submission; the guard skips no other decision: an open order on the     *)
(* other side of the symbol, or for another symbol, does not block.        *)
C16_OpenOrderGuard ==
    ValidCall =>
        /\ (_read_limits.enable_open_order_guard /\ ReportsSameOrder) =>
              /\ execCall.outcome.kind = "SKIP_OPEN_ORDER"
              /\ execCall.outcome.submits = 0
        /\ execCall.outcome.kind = "SKIP_OPEN_ORDER" =>
              _read_limits.enable_open_order_guard /\ ReportsSameOrder

(* C16 witness: in live mode a BUY was skipped because the client lists an *)
(* open buy order for the symbol.                                          *)
C16_Witness ==
    /\ env.EXECUTE = "1"
    /\ ValidCall
    /\ ReportsSameOrder
    /\ execCall.action.action = "BUY"
    /\ execCall.outcome.kind = "SKIP_OPEN_ORDER"

(* With the guard on, a SELL went out although the client lists an open    *)
(* buy order for the same symbol.                                          *)
C16_OtherSidePasses ==
    /\ _read_limits.enable_open_order_guard
    /\ ValidCall
    /\ execCall.action.action = "SELL"
    /\ \E o \in execCall.api_client.orders : upper(o.symbol) = CallSymbol
    /\ execCall.outcome.kind = "ORDER_SENT"

(* The quantity of the observed call after the position-cap step: a BUY's  *)
(* requested qty lowered to the shares still allowed, a SELL's requested   *)
(* qty.                                                                    *)
CallAfterCap ==
    IF execCall.action.action = "BUY"
    THEN Min(execCall.action.qty,
             (_read_limits.max_position_percent * CallTotal
                  - 100 * CallHeld * CallPrice) \div (100 * CallPrice))
    ELSE execCall.action.qty

C17_SellClamped ==
    /\ execCall.called
    /\ execCall.action.action = "SELL"
    /\ execCall.action.qty = 5
    /\ _read_limits.max_shares_per_trade = 3
    /\ execCall.outcome.kind \in Proceeded
    /\ execCall.outcome.qty = 3

(* A BUY of 5 with max_shares_per_trade = 3 went on with the 2 shares the  *)
(* position cap allows.                                                    *)
C17_CapBelowMaxShares ==
    /\ execCall.called
    /\ execCall.action.action = "BUY"
    /\ execCall.action.qty = 5
    /\ _read_limits.max_shares_per_trade = 3
    /\ execCall.outcome.kind \in Proceeded
    /\ execCall.outcome.qty = 2

(* C19: one call of execute_action calls submit_order at most once; when   *)
(* submit_order raises in live mode the call catches the exception and     *)
(* returns normally; nothing is retried, so the submissions admitted by    *)
(* the rate limiter never outnumber the calls of execute_action.           *)
C19_SubmitFailureContained ==
    /\ execCall.called =>
          /\ execCall.outcome.submits <= 1
          /\ (execCall.outcome.submits = 1 /\ execCall.api_client.submit # "ok") =>
                execCall.outcome.kind = "SUBMIT_FAILED"
          /\ execCall.outcome.kind = "RAISED" => execCall.outcome.submits = 0
    /\ Len(admitted[SubmitKey]) <= nExec

(* C19 witness: in live mode submit_order was called once and raised. *)
C19_Witness ==
    /\ env.EXECUTE = "1"
    /\ execCall.called
    /\ execCall.api_client.submit = "Exception"
    /\ execCall.outcome.submits = 1
    /\ execCall.outcome.kind = "SUBMIT_FAILED"

(* The cap of the position-cap step: floor((pct/100 * total - held*p) / p),*)
(* with numerator and denominator multiplied by 100.                       *)
CallCap ==
    (_read_limits.max_position_percent * CallTotal - 100 * CallHeld * CallPrice)
        \div (100 * CallPrice)

(* C9: a BUY that reaches the cap step with price p > 0 proceeds with      *)
(* min(requested qty, cap) when cap >= 1 (the max-shares clamp that        *)
(* follows can only lower it) and is skipped when cap < 1, so              *)
(* (held + ordered) * p never exceeds max_position_percent of the          *)
(* portfolio value.                                                        *)
C9_PositionCap ==
    (/\ execCall.called
     /\ execCall.action.action = "BUY"
     /\ execCall.outcome.kind \in Proceeded \cup {"SKIP_CAP", "SKIP_QTY"}) =>
        /\ CallPrice > 0
        /\ IF CallCap >= 1
           THEN /\ execCall.outcome.kind \in Proceeded
                /\ execCall.outcome.qty =
                       Min(Min(execCall.action.qty, CallCap),
                           _read_limits.max_shares_per_trade)
                /\ (CallHeld + execCall.outcome.qty) * CallPrice * 100
                       <= _read_limits.max_position_percent * CallTotal
           ELSE execCall.outcome.kind = "SKIP_CAP"

(* The spec's example: cash 1000, price 100, 20 %, 5 requested gives 2. *)
C9_Witness ==
    /\ execCall.called
    /\ execCall.action.action = "BUY"
    /\ execCall.action.qty = 5
    /\ execCall.snapshot.cash = 2000
    /\ CallPrice = 200
    /\ CallHeld = 0
    /\ _read_limits.max_position_percent = 20
    /\ execCall.outcome.kind \in Proceeded
    /\ execCall.outcome.qty = 2

(* The cooldown condition on the record (t0, p0) of the last BUY that was  *)
(* not skipped: now - t0 < buy_cooldown_seconds and                        *)
(* |p - p0| / p0 * 100 < price_move_bypass_pct.                            *)
InsideWindow(record) ==
    execCall.now - record[1] < _read_limits.buy_cooldown_seconds * TicksPerSecond
SmallMove(record) ==
    Abs(CallPrice - record[2]) * 100 < _read_limits.price_move_bypass_pct * record[2]

-----------------------------------------------------------------------------
(* RiskGate (src/src/trading_crew.py, risk_tool) *)

RISK_MAX_SHARES == 5

(* A snapshot timestamp as New York wall-clock time: weekday (Monday is 0) *)
(* and minute of the day, which is what _is_market_open_at looks at after  *)
(* astimezone(ZoneInfo("America/New_York")).                               *)
NewYork(weekday, hour, minute) == [weekday |-> weekday, minute |-> 60 * hour + minute]

(* _is_market_open_at: a weekday between 09:30 and 16:00, ends included. *)
_is_market_open_at(ts) ==
    IF ts.weekday >= 5 THEN FALSE
    ELSE 60 * 9 + 30 <= ts.minute /\ ts.minute <= 60 * 16

(* risk_tool; market_is_open is "True", "False" or None. *)
risk_tool(snapshot, market, valuation, allowlist, market_is_open, max_shares_per_symbol, forced_veto) ==
    LET proposed == IF valuation.action \in {"BUY", "SELL"} THEN valuation ELSE market
        symbol == IF proposed.symbol \in {None, ""} THEN None ELSE upper(proposed.symbol)
        action == proposed.action
        current_qty == Get(snapshot.positions, symbol, 0)
        price == Get(snapshot.prices, symbol, NoneNum)
    IN  IF forced_veto = "market_closed"
        THEN RiskResult("VETO", "market closed", 100)
        ELSE IF forced_veto = "symbol_not_allowed"
        THEN RiskResult("VETO", "symbol not allowed", 100)
        ELSE IF forced_veto = "insufficient_cash"
        THEN RiskResult("VETO", "insufficient cash", 100)
        ELSE IF market_is_open # None /\ market_is_open # "True"
        THEN RiskResult("VETO", "market closed", 100)
        ELSE IF market_is_open = None /\ ~_is_market_open_at(snapshot.timestamp)
        THEN RiskResult("VETO", "market closed", 100)
        ELSE IF symbol # None /\ symbol \notin allowlist
        THEN RiskResult("VETO", "symbol not allowed", 100)
        ELSE IF action = "BUY" /\ symbol # None /\ current_qty >= max_shares_per_symbol
        THEN RiskResult("VETO", "position limit reached", 100)
        ELSE IF action = "BUY" /\ symbol # None /\ (price = NoneNum \/ price <= 0)
        THEN RiskResult("VETO", "insufficient cash", 100)
        ELSE IF action = "BUY" /\ symbol # None /\ snapshot.cash < price
        THEN RiskResult("VETO", "insufficient cash", 100)
        ELSE RiskResult("APPROVE", "checks passed", 70)

(* A call of risk_tool, as kickoff makes it. *)
RiskGate(snapshot, market, valuation, allowlist, market_is_open, max_shares_per_symbol, forced_veto) ==
    /\ riskCall = NoRiskCall
    /\ riskCall' = [called |-> TRUE, snapshot |-> snapshot, market |-> market,
                    valuation |-> valuation, allowlist |-> allowlist,
                    market_is_open |-> market_is_open,
                    max_shares_per_symbol |-> max_shares_per_symbol,
                    forced_veto |-> forced_veto,
                    result |-> risk_tool(snapshot, market, valuation, allowlist,
                                  market_is_open, max_shares_per_symbol, forced_veto)]
    /\ UNCHANGED <<rlVars, exVars, env, last_sell_ts, coordCall, thVars, crVars>>

(* The caller takes the result of risk_tool. *)
RiskReturn ==
    /\ riskCall # NoRiskCall
    /\ riskCall' = NoRiskCall
    /\ UNCHANGED <<rlVars, exVars, env, last_sell_ts, coordCall, thVars, crVars>>

(* Inputs of risk_tool. Saturday noon, and Monday around both ends of the  *)
(* session.                                                                *)
RiskTimes ==
    {NewYork(5, 12, 0), NewYork(0, 9, 29), NewYork(0, 9, 30), NewYork(0, 16, 0),
     NewYork(0, 16, 1)}

(* Books (prices and cash in half dollars): room to buy; PLTR at the       *)
(* per-symbol cap with cash below one share; cash below one share; no      *)
(* PLTR price.                                                             *)
RiskBooks ==
    {[prices |-> [PLTR |-> 200, NFLX |-> 400], cash |-> 2000,
      positions |-> [PLTR |-> 0, NFLX |-> 0]],
     [prices |-> [PLTR |-> 200, NFLX |-> 400], cash |-> 100,
      positions |-> [PLTR |-> RISK_MAX_SHARES, NFLX |-> 0]],
     [prices |-> [PLTR |-> 200, NFLX |-> 400], cash |-> 100,
      positions |-> [PLTR |-> 0, NFLX |-> 0]],
     [prices |-> [s \in {"NFLX"} |-> 400], cash |-> 2000,
      positions |-> [s \in {} |-> 0]]}

RiskSnapshots ==
    {[timestamp |-> ts, prices |-> b.prices, cash |-> b.cash,
      positions |-> b.positions] : ts \in RiskTimes, b \in RiskBooks}

RiskMarketDecisions ==
    {DecisionModel("HOLD", None, "neutral", 50),
     DecisionModel("BUY", "pltr", "momentum", 60),
     DecisionModel("BUY", "NFLX", "momentum", 60),
     DecisionModel("SELL", "PLTR", "momentum", 60)}

RiskValuationDecisions ==
    {DecisionModel("HOLD", None, "valuation: no actionable signal", 50),
     DecisionModel("BUY", "pltr", "undervalued", 90),
     DecisionModel("BUY", "NFLX", "undervalued", 90),
     DecisionModel("SELL", "pltr", "take profit hit", 90)}

Allowlists == {{"PLTR"}, {"PLTR", "NFLX"}}
ForcedVetoes == {None, "market_closed", "symbol_not_allowed", "insufficient_cash"}

InitRisk == InitCoord

NextRisk ==
    \/ \E snapshot \in RiskSnapshots, market \in RiskMarketDecisions,
          valuation \in RiskValuationDecisions, allowlist \in Allowlists,
          market_is_open \in {"True", "False", None},
          forced_veto \in ForcedVetoes :
            RiskGate(snapshot, market, valuation, allowlist, market_is_open,
                     RISK_MAX_SHARES, forced_veto)
    \/ RiskReturn

SpecRisk == InitRisk /\ [][NextRisk]_vars

-----------------------------------------------------------------------------
(* Properties of risk_tool *)

(* The rules of the RiskGate on the observed call, each on its own. *)
RiskProposed ==
    IF riskCall.valuation.action \in {"BUY", "SELL"}
    THEN riskCall.valuation
    ELSE riskCall.market
RiskSymbol == upper(RiskProposed.symbol)
MarketClosed ==
    IF riskCall.market_is_open = None
    THEN \/ riskCall.snapshot.timestamp.weekday >= 5
         \/ riskCall.snapshot.timestamp.minute < 60 * 9 + 30
         \/ riskCall.snapshot.timestamp.minute > 60 * 16
    ELSE riskCall.market_is_open = "False"
SymbolNotAllowed ==
    /\ RiskProposed.symbol # None
    /\ RiskSymbol \notin riskCall.allowlist
BuyProposed == RiskProposed.action = "BUY" /\ RiskProposed.symbol # None
PositionLimitReached ==
    /\ BuyProposed
    /\ Get(riskCall.snapshot.positions, RiskSymbol, 0) >= riskCall.max_shares_per_symbol
InsufficientCash ==
    /\ BuyProposed
    /\ \/ RiskSymbol \notin DOMAIN riskCall.snapshot.prices
       \/ riskCall.snapshot.prices[RiskSymbol] <= 0
       \/ riskCall.snapshot.cash < riskCall.snapshot.prices[RiskSymbol]

(* The verdict of the first matching rule. *)
FirstMatch ==
    CASE MarketClosed -> <<"VETO", "market closed">>
      [] ~MarketClosed /\ SymbolNotAllowed -> <<"VETO", "symbol not allowed">>
      [] ~MarketClosed /\ ~SymbolNotAllowed /\ PositionLimitReached ->
            <<"VETO", "position limit reached">>
      [] /\ ~MarketClosed /\ ~SymbolNotAllowed /\ ~PositionLimitReached
         /\ InsufficientCash -> <<"VETO", "insufficient cash">>
      [] OTHER -> <<"APPROVE", "checks passed">>

(* Status and reason of risk_tool follow the evaluation order: the verdict *)
(* is that of the earliest matching rule.                                  *)
RiskVerdictInOrder ==
    (riskCall.called /\ riskCall.forced_veto = None) =>
        /\ riskCall.result.status = FirstMatch[1]
        /\ riskCall.result.reason = FirstMatch[2]

(* A closed market, a symbol outside the allowlist and a position at the   *)
(* cap with too little cash, all at once: the result is "market closed".   *)
SeveralRulesMatch ==
    /\ riskCall.called
    /\ riskCall.forced_veto = None
    /\ MarketClosed
    /\ SymbolNotAllowed
    /\ riskCall.result.reason = "market closed"

(* C18: with no forced veto, risk_tool returns the verdict of the first    *)
(* matching rule in the order market closed, symbol not allowed, position  *)
(* limit reached, insufficient cash, else APPROVE "checks passed"; the     *)
(* result's confidence is 1.0 on VETO and 0.7 on APPROVE.                  *)
C18_RiskGateOrder ==
    (riskCall.called /\ riskCall.forced_veto = None) =>
        /\ riskCall.result.status = FirstMatch[1]
        /\ riskCall.result.reason = FirstMatch[2]
        /\ HasAttr(riskCall.result, "confidence")
        /\ riskCall.result.confidence =
               IF riskCall.result.status = "VETO" THEN 100 ELSE 70

-----------------------------------------------------------------------------
(* Callers of RateLimiter.allow (src/src/rate_limiter.py, and the loops    *)
(* that poll it)                                                           *)

(* Variant of the scheduling in which a caller may enter allow() while     *)
(* another caller is inside it, as threads sharing the limiter would.      *)
Preemptive(c) == TRUE

(* The trading loop is one thread and allow() never yields: a caller runs  *)
(* only while no other caller is inside allow().                           *)
Sequential(c) == \A d \in Callers \ {c} : pc[d] = "idle"

(* What the per-key observers of the limiter record for a finished call. *)
Observed(key, now) ==
    /\ solo' = [solo EXCEPT ![key] = AllowOn(@, now)[2]]
    /\ lazy' = IF AllowOn(lazy[key], now)[1]
               THEN [lazy EXCEPT ![key] = AllowOn(@, now)[2]]
               ELSE lazy

(* allow(key), first half: read the clock, prune the three queues and      *)
(* test the capacities; at capacity the call returns False.                *)
AllowCheck(c, key) ==
    /\ nCalls < MaxCalls
    /\ pc[c] = "idle"
    /\ Sequential(c)
    /\ LET now == clock
           sec_hits == _prune(secHits[key], now, SecondWindow)
           hour_hits == _prune(hourHits[key], now, HourWindow)
           day_hits == _prune(dayHits[key], now, DayWindow)
           pruned == [sec |-> sec_hits, hour |-> hour_hits, day |-> day_hits]
       IN  /\ StoreHits(key, pruned)
           /\ IF AtCapacity(sec_hits, hour_hits, day_hits)
              THEN /\ pc' = pc
                   /\ frame' = [frame EXCEPT ![c] =
                                   [key |-> key, now |-> now, checked |-> pruned,
                                    returned |-> "False"]]
                   /\ last' = [key |-> key, now |-> now, result |-> FALSE]
                   /\ Observed(key, now)
              ELSE /\ pc' = [pc EXCEPT ![c] = "append"]
                   /\ frame' = [frame EXCEPT ![c] =
                                   [key |-> key, now |-> now, checked |-> pruned,
                                    returned |-> None]]
                   /\ UNCHANGED <<last, solo, lazy>>
    /\ nCalls' = nCalls + 1
    /\ UNCHANGED <<clock, per_second, per_hour, per_day, admitted, nTicks>>
    /\ UNCHANGED <<coVars, exVars, env, crVars>>

(* allow(key), second half: append now to the three queues as they are    *)
(* at this moment and return True.                                         *)
AllowAppend(c) ==
    /\ pc[c] = "append"
    /\ Sequential(c)
    /\ LET key == frame[c].key
           now == frame[c].now
       IN  /\ StoreHits(key, [sec |-> Append(secHits[key], now),
                              hour |-> Append(hourHits[key], now),
                              day |-> Append(dayHits[key], now)])
           /\ last' = [key |-> key, now |-> now, result |-> TRUE]
           /\ admitted' = [admitted EXCEPT ![key] = Append(@, now)]
           /\ Observed(key, now)
    /\ pc' = [pc EXCEPT ![c] = "idle"]
    /\ frame' = [frame EXCEPT ![c].returned = "True"]
    /\ UNCHANGED <<clock, per_second, per_hour, per_day, nCalls, nTicks>>
    /\ UNCHANGED <<coVars, exVars, env, crVars>>

(* A limiter shared by the callers; the day window is the widest. *)
InitCallers == InitRL /\ per_day = 2

NextCallers ==
    \/ \E c \in Callers, key \in Keys : AllowCheck(c, key)
    \/ \E c \in Callers : AllowAppend(c)
    \/ \E d \in ClockSteps : Tick(d)

SpecCallers == InitCallers /\ [][NextCallers]_vars

-----------------------------------------------------------------------------
(* Properties of the callers of allow *)

-----------------------------------------------------------------------------
(* Momentum agent (src/src/trading_crew.py, momentum_tool) *)

(* TradingFlow.SYMBOLS, in order: the order in which a snapshot's prices   *)
(* are inserted and therefore iterated.                                    *)
SYMBOLS == <<"PLTR", "NFLX">>
FlowSymbols == {SYMBOLS[i] : i \in 1 .. Len(SYMBOLS)}

(* snapshot.prices.items(), as the symbols in iteration order. *)
Items(prices) == SelectSeq(SYMBOLS, LAMBDA s : s \in DOMAIN prices)

(* state[symbol] = price *)
Put(state, symbol, price) ==
    [s \in DOMAIN state \cup {symbol} |-> IF s = symbol THEN price ELSE state[s]]

(* No best symbol yet: best_change is -inf. *)
NoBest == [symbol |-> None, num |-> 0, den |-> 1]

(* Variant of the comparison that lets a later symbol take over on a tie. *)
Better_or_equal(best, price, previous) ==
    \/ best.symbol = None
    \/ (price - previous) * best.den >= best.num * previous

(* change > best_change, with change = (price - previous) / previous and   *)
(* best_change = best.num / best.den compared by cross-multiplication.     *)
Better(best, price, previous) ==
    \/ best.symbol = None
    \/ (price - previous) * best.den > best.num * previous

(* The loop of momentum_tool over the snapshot's prices. *)
RECURSIVE MomentumLoop(_, _, _, _)
MomentumLoop(items, prices, state, best) ==
    IF items = <<>> THEN [best |-> best, state |-> state]
    ELSE LET symbol == Head(items)
             price == prices[symbol]
             previous == Get(state, symbol, NoneNum)
         IN  IF price <= 0
             THEN MomentumLoop(Tail(items), prices, state, best)
             ELSE MomentumLoop(Tail(items), prices, Put(state, symbol, price),
                      IF previous # NoneNum /\ previous > 0 /\ Better(best, price, previous)
                      THEN [symbol |-> symbol, num |-> price - previous, den |-> previous]
                      ELSE best)

(* momentum_tool(snapshot, state): the decision and the state it leaves.   *)
(* Confidences in hundredths: min(0.4 + |change| * 20, 0.85).              *)
momentum_tool(snapshot, state) ==
    LET scanned == MomentumLoop(Items(snapshot.prices), snapshot.prices, state, NoBest)
        best == scanned.best
        momentum_confidence == Min(40 + (2000 * Abs(best.num)) \div best.den, 85)
        neutral_confidence == Max(40, Min(55, momentum_confidence))
    IN  [state |-> scanned.state,
         decision |->
            IF best.symbol = None
            THEN DecisionModel("HOLD", None, "market: no momentum signal", 45)
            ELSE IF best.num * 100 >= best.den
            THEN DecisionModel("BUY", best.symbol, "market: momentum up",
                               momentum_confidence)
            ELSE IF /\ best.num * 100 <= -best.den
                    /\ Get(snapshot.positions, best.symbol, 0) > 0
            THEN DecisionModel("SELL", best.symbol, "market: momentum down",
                               momentum_confidence)
            ELSE DecisionModel("HOLD", None, "market: momentum neutral",
                               neutral_confidence)]

(* A call momentum_tool(snapshot, state=self._market_state). *)
Momentum(snapshot) ==
    /\ momentumCall = NoMomentumCall
    /\ market_state' = momentum_tool(snapshot, market_state).state
    /\ momentumCall' = [called |-> TRUE, snapshot |-> snapshot, state |-> market_state,
                        result |-> momentum_tool(snapshot, market_state).decision]
    /\ UNCHANGED <<rlVars, coVars, exVars, env, thVars, tkVars>>

(* The caller takes the decision of momentum_tool. *)
MomentumReturn ==
    /\ momentumCall # NoMomentumCall
    /\ momentumCall' = NoMomentumCall
    /\ UNCHANGED <<rlVars, coVars, exVars, env, thVars, market_state, tkVars>>

(* Snapshots, prices in half dollars: PLTR missing a price (0), 1 % and    *)
(* 0.5 % around 200; NFLX 1 % around 400; or no PLTR entry at all.         *)
MomentumPrices ==
    {[PLTR |-> p, NFLX |-> n] : p \in {0, 198, 200, 201, 202}, n \in {396, 400, 404}}
      \cup {[s \in {"NFLX"} |-> 400]}
MomentumPositions == {[PLTR |-> 0, NFLX |-> 0], [PLTR |-> 1, NFLX |-> 0]}
MomentumSnapshots ==
    {[prices |-> p, cash |-> 2000, positions |-> q] :
        p \in MomentumPrices, q \in MomentumPositions}

InitMomentum == InitCoord

NextMomentum ==
    \/ \E snapshot \in MomentumSnapshots : Momentum(snapshot)
    \/ MomentumReturn

SpecMomentum == InitMomentum /\ [][NextMomentum]_vars

-----------------------------------------------------------------------------
(* Properties of momentum_tool *)

(* C27: after momentum_tool(snapshot, state) has returned, state[s] is the *)
(* snapshot price of every symbol s of the snapshot, whatever decision was *)
(* returned.                                                               *)
C27_StateTracksLastTick ==
    momentumCall.called =>
        \A s \in DOMAIN momentumCall.snapshot.prices :
            /\ s \in DOMAIN market_state
            /\ market_state[s] = momentumCall.snapshot.prices[s]

(* The same for the symbols with a positive price, which is what the loop  *)
(* of momentum_tool does: it skips a non-positive price before the update. *)
StateTracksPositivePrices ==
    momentumCall.called =>
        \A s \in DOMAIN momentumCall.snapshot.prices :
            IF momentumCall.snapshot.prices[s] > 0
            THEN s \in DOMAIN market_state
                    /\ market_state[s] = momentumCall.snapshot.prices[s]
            ELSE Get(market_state, s, NoneNum) = Get(momentumCall.state, s, NoneNum)

(* The symbols of the observed call with a positive current and a positive *)
(* previous price, and the order of their changes.                         *)
Candidates ==
    {s \in DOMAIN momentumCall.snapshot.prices :
        /\ momentumCall.snapshot.prices[s] > 0
        /\ s \in DOMAIN momentumCall.state
        /\ momentumCall.state[s] > 0}
Rose(s) == momentumCall.snapshot.prices[s] - momentumCall.state[s]
NotBelow(s, t) == Rose(s) * momentumCall.state[t] >= Rose(t) * momentumCall.state[s]
Maxima == {s \in Candidates : \A t \in Candidates : NotBelow(s, t)}
IndexOf(s) == CHOOSE i \in 1 .. Len(SYMBOLS) : SYMBOLS[i] = s
Selected == CHOOSE s \in Maxima : \A t \in Maxima : IndexOf(s) <= IndexOf(t)

(* C28: among the symbols with a positive current and a positive previous  *)
(* price momentum_tool selects the one with the largest change, the first  *)
(* in iteration order on ties; it returns BUY of it iff the change is      *)
(* >= +1 %, SELL of it iff the change is <= -1 % and the symbol is held,   *)
(* and HOLD with no symbol otherwise, also when there is no candidate.     *)
C28_MomentumPolicy ==
    momentumCall.called =>
        IF Candidates = {}
        THEN momentumCall.result.action = "HOLD" /\ momentumCall.result.symbol = None
        ELSE /\ momentumCall.result.action = "BUY" <=>
                    Rose(Selected) * 100 >= momentumCall.state[Selected]
             /\ momentumCall.result.action = "SELL" <=>
                    /\ Rose(Selected) * 100 <= -momentumCall.state[Selected]
                    /\ Get(momentumCall.snapshot.positions, Selected, 0) > 0
             /\ momentumCall.result.action \in {"BUY", "SELL"} =>
                    momentumCall.result.symbol = Selected
             /\ momentumCall.result.action = "HOLD" =>
                    momentumCall.result.symbol = None

(* C28 witness: PLTR and NFLX both rose by exactly 1 %; the BUY names      *)
(* PLTR, the first of the two in iteration order.                          *)
C28_Witness ==
    /\ momentumCall.called
    /\ Maxima = {"PLTR", "NFLX"}
    /\ Rose("PLTR") * 100 = momentumCall.state["PLTR"]
    /\ momentumCall.result.action = "BUY"
    /\ momentumCall.result.symbol = "PLTR"

(* The largest change is a fall of 1 % of a held symbol: SELL. *)
MomentumSells ==
    /\ momentumCall.called
    /\ momentumCall.result.action = "SELL"
    /\ momentumCall.result.symbol = "PLTR"

-----------------------------------------------------------------------------
(* valuation_tool (src/src/trading_crew.py): exits first, then entry       *)
(* scoring against the fair-value table.  Prices, fair values and average  *)
(* entry prices are in half dollars; a P&L or a score is the exact         *)
(* fraction num/den with den > 0.                                          *)

TAKE_PROFIT_PCT == 5
STOP_LOSS_PCT == -3
FAIR_VALUES == [PLTR |-> 190, NFLX |-> 380]

(* compute_position_insight(position, current_price).pnl_pct *)
compute_position_insight(qty, avg_entry_price, current_price) ==
    IF qty <= 0 \/ avg_entry_price <= 0
    THEN [num |-> 0, den |-> 1]
    ELSE [num |-> current_price - avg_entry_price, den |-> avg_entry_price]

(* FairValueTool.run(price, fair), called with price > 0 only. *)
FairValueRun(price, fair) == [num |-> fair - price, den |-> price]

NoExit == [action |-> None]

(* The first loop of valuation_tool from symbols[i] on: the SELL it        *)
(* returns, or NoExit when the loop runs to its end.                       *)
RECURSIVE ExitLoop(_, _, _)
ExitLoop(snapshot, symbols, i) ==
    IF i > Len(symbols) THEN NoExit
    ELSE LET symbol == symbols[i]
             qty == Get(snapshot.positions, symbol, 0)
             price == Get(snapshot.prices, symbol, NoneNum)
             avg_entry == Get(snapshot.avg_entry_prices, symbol, 0)
             pnl_pct == compute_position_insight(qty, avg_entry, price)
         IN  IF qty <= 0 \/ price = NoneNum \/ price <= 0
             THEN ExitLoop(snapshot, symbols, i + 1)
             ELSE IF pnl_pct.num * 100 >= TAKE_PROFIT_PCT * pnl_pct.den
             THEN DecisionModel("SELL", symbol, "take profit hit", 90)
             ELSE IF pnl_pct.num * 100 <= STOP_LOSS_PCT * pnl_pct.den
             THEN DecisionModel("SELL", symbol, "stop loss hit", 85)
             ELSE ExitLoop(snapshot, symbols, i + 1)

NoScore == [symbol |-> None, num |-> 0, den |-> 1]
ScoreAbove(score, best) == best.symbol = None \/ score.num * best.den > best.num * score.den
ScoreBelow(score, best) == best.symbol = None \/ score.num * best.den < best.num * score.den

(* The second loop from symbols[i] on, with best_buy and best_sell so far. *)
RECURSIVE EntryLoop(_, _, _, _, _, _)
EntryLoop(snapshot, symbols, max_shares_per_symbol, i, best_buy, best_sell) ==
    IF i > Len(symbols) THEN [best_buy |-> best_buy, best_sell |-> best_sell]
    ELSE LET symbol == symbols[i]
             price == Get(snapshot.prices, symbol, NoneNum)
             fair == Get(FAIR_VALUES, symbol, NoneNum)
             score == FairValueRun(price, fair)
             entry == [symbol |-> symbol, num |-> score.num, den |-> score.den]
         IN  IF Get(snapshot.positions, symbol, 0) >= max_shares_per_symbol
             THEN EntryLoop(snapshot, symbols, max_shares_per_symbol, i + 1,
                            best_buy, best_sell)
             ELSE IF fair = NoneNum \/ price = NoneNum \/ price <= 0
             THEN EntryLoop(snapshot, symbols, max_shares_per_symbol, i + 1,
                            best_buy, best_sell)
             ELSE EntryLoop(snapshot, symbols, max_shares_per_symbol, i + 1,
                            IF ScoreAbove(score, best_buy) THEN entry ELSE best_buy,
                            IF ScoreBelow(score, best_sell) THEN entry ELSE best_sell)

(* Confidences of the entry decisions, in hundredths. *)
BuyConfidence(best) == Min(50 + (5 * Max(100 * best.num - 3 * best.den, 0)) \div best.den, 90)
SellConfidence(best) == Min(60 + (3 * Max(100 * Abs(best.num) - 3 * best.den, 0)) \div best.den, 85)

(* valuation_tool(snapshot, symbols, max_shares_per_symbol) *)
valuation_tool(snapshot, symbols, max_shares_per_symbol) ==
    LET exit == ExitLoop(snapshot, symbols, 1)
        scored == EntryLoop(snapshot, symbols, max_shares_per_symbol, 1, NoScore, NoScore)
        best_buy == scored.best_buy
        best_sell == scored.best_sell
    IN  IF exit # NoExit THEN exit
        ELSE IF best_buy.symbol # None /\ best_buy.num * 100 >= 3 * best_buy.den
        THEN DecisionModel("BUY", best_buy.symbol, "valuation: score", BuyConfidence(best_buy))
        ELSE IF /\ best_sell.symbol # None
                /\ best_sell.num * 100 <= -3 * best_sell.den
                /\ Get(snapshot.positions, best_sell.symbol, 0) > 0
        THEN DecisionModel("SELL", best_sell.symbol, "valuation: score", SellConfidence(best_sell))
        ELSE DecisionModel("HOLD", None, "valuation: no actionable signal", 50)

(* A call valuation_tool(snapshot, self._symbols, self._max_shares_per_symbol). *)
Valuation(snapshot) ==
    /\ valuationCall = NoValuationCall
    /\ valuationCall' = [called |-> TRUE, snapshot |-> snapshot,
                         result |-> valuation_tool(snapshot, SYMBOLS, RISK_MAX_SHARES)]
    /\ UNCHANGED <<rlVars, coVars, exVars, env, thVars, market_state, momentumCall,
                   kickoffCall, flow, loop, decideCall>>

(* The caller takes the decision of valuation_tool. *)
ValuationReturn ==
    /\ valuationCall # NoValuationCall
    /\ valuationCall' = NoValuationCall
    /\ UNCHANGED <<rlVars, coVars, exVars, env, thVars, market_state, momentumCall,
                   kickoffCall, flow, loop, decideCall>>

(* Snapshots: PLTR (fair 190) without a price or scoring +11.8 %, -2.1 %,  *)
(* -5 %, -9.5 %; NFLX (fair 380) scoring +5.6 %, 0, -5 %, -9.5 %; PLTR not *)
(* held, held, or held at the share cap; average entry prices unknown or   *)
(* at 200 / 400, so that 210 and 420 are +5 % and 194 is -3 %.             *)
ValuationPrices ==
    {[PLTR |-> p, NFLX |-> n] : p \in {0, 170, 194, 200, 210}, n \in {360, 380, 400, 420}}
ValuationPositions ==
    {[PLTR |-> p, NFLX |-> n] : p \in {0, 1, RISK_MAX_SHARES}, n \in {0, 1}}
ValuationEntries ==
    {[s \in {} |-> 0], [s \in {"NFLX"} |-> 400], [PLTR |-> 200, NFLX |-> 400],
     [PLTR |-> 200, NFLX |-> 380]}
ValuationSnapshots ==
    {[prices |-> p, cash |-> 2000, positions |-> q, avg_entry_prices |-> a] :
        p \in ValuationPrices, q \in ValuationPositions, a \in ValuationEntries}

InitValuation == InitCoord

NextValuation ==
    \/ \E snapshot \in ValuationSnapshots : Valuation(snapshot)
    \/ ValuationReturn

SpecValuation == InitValuation /\ [][NextValuation]_vars

(* The held symbols of the observed call whose P&L has reached a           *)
(* threshold, and the first of them in iteration order.                    *)
ValuationQty(s) == Get(valuationCall.snapshot.positions, s, 0)
ValuationPrice(s) == Get(valuationCall.snapshot.prices, s, 0)
ValuationEntry(s) == Get(valuationCall.snapshot.avg_entry_prices, s, 0)
Held(s) == ValuationQty(s) > 0 /\ ValuationPrice(s) > 0 /\ ValuationEntry(s) > 0
TakeProfit(s) == Held(s) /\ (ValuationPrice(s) - ValuationEntry(s)) * 100 >= 5 * ValuationEntry(s)
StopLoss(s) == Held(s) /\ (ValuationPrice(s) - ValuationEntry(s)) * 100 <= -3 * ValuationEntry(s)
Exits == {s \in {SYMBOLS[i] : i \in 1 .. Len(SYMBOLS)} : TakeProfit(s) \/ StopLoss(s)}
FirstExit == CHOOSE s \in Exits : \A t \in Exits : IndexOf(s) <= IndexOf(t)

(* The exit decision without its confidence: SELL of the first symbol at a *)
(* threshold, whatever the scores and the share cap; a score decides only  *)
(* when no symbol is at a threshold.                                       *)
ExitFirst ==
    valuationCall.called =>
        IF Exits # {}
        THEN /\ valuationCall.result.action = "SELL"
             /\ valuationCall.result.symbol = FirstExit
             /\ valuationCall.result.reason =
                    IF TakeProfit(FirstExit) THEN "take profit hit" ELSE "stop loss hit"
        ELSE valuationCall.result.reason \notin {"take profit hit", "stop loss hit"}

(* An exit of NFLX although PLTR scores for a BUY, and an exit of PLTR     *)
(* held at the share cap although NFLX is at a threshold as well.          *)
ExitBeatsScore ==
    /\ valuationCall.called
    /\ Exits = {"NFLX"}
    /\ ValuationPrice("PLTR") = 170
    /\ ValuationQty("PLTR") = 0
    /\ valuationCall.result.symbol = "NFLX"
ExitAtCap ==
    /\ valuationCall.called
    /\ Exits = {"PLTR", "NFLX"}
    /\ ValuationQty("PLTR") = RISK_MAX_SHARES
    /\ valuationCall.result.symbol = "PLTR"

(* C29: if a held symbol with a positive price and a known average entry   *)
(* price has a P&L >= +5 % or <= -3 %, valuation_tool returns SELL of the  *)
(* first such symbol in iteration order, carrying confidence 0.9 for the   *)
(* take-profit and 0.85 for the stop-loss, whatever the scores and the     *)
(* share cap; entry scoring decides only when no exit fires.               *)
C29_ExitPriority ==
    /\ ExitFirst
    /\ valuationCall.called /\ Exits # {} =>
        /\ HasAttr(valuationCall.result, "confidence")
        /\ valuationCall.result.confidence = IF TakeProfit(FirstExit) THEN 90 ELSE 85


(* The symbols of the observed call that the second loop scores, their     *)
(* scores (fair - price) / price, and the order of the scores.             *)
Scored ==
    {s \in {SYMBOLS[i] : i \in 1 .. Len(SYMBOLS)} :
        /\ ValuationQty(s) < RISK_MAX_SHARES
        /\ s \in DOMAIN FAIR_VALUES
        /\ ValuationPrice(s) > 0}
ScoreNum(s) == FAIR_VALUES[s] - ValuationPrice(s)
ScoreNotBelow(s, t) == ScoreNum(s) * ValuationPrice(t) >= ScoreNum(t) * ValuationPrice(s)
ScoreAtLeast3(s) == ScoreNum(s) * 100 >= 3 * ValuationPrice(s)
ScoreAtMostMinus3(s) == ScoreNum(s) * 100 <= -3 * ValuationPrice(s)
MaxScored == {s \in Scored : \A t \in Scored : ScoreNotBelow(s, t)}
MinScored == {s \in Scored : \A t \in Scored : ScoreNotBelow(t, s)}
FirstMaxScored == CHOOSE s \in MaxScored : \A t \in MaxScored : IndexOf(s) <= IndexOf(t)
FirstMinScored == CHOOSE s \in MinScored : \A t \in MinScored : IndexOf(s) <= IndexOf(t)
HeldScored == {s \in Scored : ValuationQty(s) > 0}
MinHeldScored == {s \in HeldScored : \A t \in HeldScored : ScoreNotBelow(t, s)}

(* What the code does when no exit fires: BUY of the best score if it is   *)
(* >= +3 %; else SELL of the lowest score of all scored symbols, the first *)
(* in iteration order on ties, if it is <= -3 % and that symbol is held;   *)
(* else HOLD.  A symbol at the share cap is never bought.                  *)
EntryScoringOverall ==
    valuationCall.called /\ Exits = {} =>
        IF Scored # {} /\ ScoreAtLeast3(FirstMaxScored)
        THEN /\ valuationCall.result.action = "BUY"
             /\ valuationCall.result.symbol = FirstMaxScored
             /\ ValuationQty(valuationCall.result.symbol) < RISK_MAX_SHARES
        ELSE IF /\ Scored # {}
                /\ ScoreAtMostMinus3(FirstMinScored)
                /\ ValuationQty(FirstMinScored) > 0
        THEN /\ valuationCall.result.action = "SELL"
             /\ valuationCall.result.symbol = FirstMinScored
        ELSE /\ valuationCall.result.action = "HOLD"
             /\ valuationCall.result.symbol = None

(* C30: when no exit fires, with the score computed for every symbol below *)
(* its share cap, valuation_tool returns BUY of the max-score symbol if    *)
(* its score is >= +3 %; else SELL of the lowest-scoring symbol among      *)
(* those held if that symbol's score is <= -3 %; else HOLD.  BUY comes     *)
(* first, and a symbol at the share cap is never bought.                   *)
C30_EntryScoring ==
    valuationCall.called /\ Exits = {} =>
        IF \E s \in MaxScored : ScoreAtLeast3(s)
        THEN /\ valuationCall.result.action = "BUY"
             /\ valuationCall.result.symbol \in MaxScored
             /\ ValuationQty(valuationCall.result.symbol) < RISK_MAX_SHARES
        ELSE IF \E s \in MinHeldScored : ScoreAtMostMinus3(s)
        THEN /\ valuationCall.result.action = "SELL"
             /\ valuationCall.result.symbol \in MinHeldScored
        ELSE /\ valuationCall.result.action = "HOLD"
             /\ valuationCall.result.symbol = None

(* The BUY and the SELL of entry scoring both happen. *)
EntryBuys ==
    /\ valuationCall.called
    /\ Exits = {}
    /\ valuationCall.result.action = "BUY"
    /\ valuationCall.result.symbol = "NFLX"
EntrySells ==
    /\ valuationCall.called
    /\ Exits = {}
    /\ valuationCall.result.action = "SELL"
    /\ valuationCall.result.symbol = "NFLX"

(* A held symbol scores <= -3 %, no symbol scores >= +3 %, and the call    *)
(* returns HOLD: a symbol that is not held scores lower still.             *)
HeldOvervaluedNotSold ==
    /\ valuationCall.called
    /\ Exits = {}
    /\ ~ \E s \in MaxScored : ScoreAtLeast3(s)
    /\ \E s \in MinHeldScored : ScoreAtMostMinus3(s)
    /\ valuationCall.result.action = "HOLD"

-----------------------------------------------------------------------------
(* The open-order lookup of execute_action against clients that offer      *)
(* has_open_order, list_open_orders, list_orders or none of them, and      *)
(* whose query answers, raises an Exception in the keyword form, or raises *)
(* TypeError in the keyword form and again in the positional retry.        *)

LookupQueries == {"ok", "Exception", "TypeError, Exception"}
LookupClients ==
    {NoClient, Client("none", "ok", {Order("PLTR", "buy", "open")}, "ok")}
      \cup {Client(lookup, query, {Order("PLTR", "buy", "open")}, "ok") :
                lookup \in {"has_open_order", "list_open_orders", "list_orders"},
                query \in LookupQueries}
LookupSnapshots ==
    {Snapshot([PLTR |-> 200, NFLX |-> 400], 2000, [PLTR |-> 0, NFLX |-> 0])}
LookupDecisions ==
    {Decision("HOLD", None, 0, "hold"),
     Decision("BUY", "pltr", 5, "buy"),
     Decision("SELL", "pltr", 5, "sell")}

InitLookup ==
    /\ InitExec
    /\ env.ENABLE_OPEN_ORDER_GUARD = "1"

NextLookup ==
    \/ \E api_client \in LookupClients, snapshot \in LookupSnapshots,
          action \in LookupDecisions :
          execute_action(api_client, snapshot, action)
    \/ ExecReturn

SpecLookup == InitLookup /\ [][NextLookup]_vars

(* The client of the observed call cannot answer the lookup: it is None,   *)
(* has none of the three methods, or its query raises.                     *)
LookupUnavailable ==
    \/ execCall.api_client = NoClient
    \/ execCall.api_client.lookup = "none"
    \/ execCall.api_client.query # "ok"

(* The fallback for the clients whose failing query is caught: None, no    *)
(* method, a query raising an Exception other than TypeError, and          *)
(* list_open_orders / list_orders raising in both forms.                   *)
LookupCaught ==
    \/ execCall.api_client = NoClient
    \/ execCall.api_client.lookup = "none"
    \/ execCall.api_client.query = "Exception"
    \/ /\ execCall.api_client.query # "ok"
       /\ execCall.api_client.lookup \in {"list_open_orders", "list_orders"}
LookupFallsBackWhenCaught ==
    ValidCall /\ LookupCaught =>
        execCall.outcome.kind \notin {"RAISED", "SKIP_OPEN_ORDER"}

(* C23: with the guard on, when the client is None, has none of            *)
(* has_open_order / list_open_orders / list_orders, or its query raises    *)
(* any exception, _has_open_order answers "no open order" without raising  *)
(* and execute_action goes on as if there were no duplicate.               *)
C23_LookupFallsBack ==
    ValidCall /\ LookupUnavailable =>
        execCall.outcome.kind \notin {"RAISED", "SKIP_OPEN_ORDER"}

(* A failing list_orders query was taken as "no open order": the BUY went  *)
(* to the client although an open buy order exists.                        *)
LookupFellBack ==
    /\ ValidCall
    /\ execCall.api_client.lookup = "list_orders"
    /\ execCall.api_client.query = "TypeError, Exception"
    /\ execCall.action.action = "BUY"
    /\ execCall.outcome.kind = "ORDER_SENT"

(* has_open_order raised TypeError in both forms and execute_action raised. *)
LookupRaised ==
    /\ ValidCall
    /\ execCall.api_client.lookup = "has_open_order"
    /\ execCall.api_client.query = "TypeError, Exception"
    /\ execCall.outcome.kind = "RAISED"

-----------------------------------------------------------------------------
(* DeterministicTradingCrew.kickoff (src/src/trading_crew.py): the four    *)
(* stages in their order.  A stage's result is stored as its task output   *)
(* before the next stage runs.                                             *)

(* The stages of kickoff(inputs) on the crew's momentum state: the state   *)
(* momentum_tool leaves behind, the three task outputs, and what           *)
(* coordinate_tool does (a returned decision or AttributeError).           *)
CrewKickoff(snapshot, state, allowlist, market_is_open, forced_veto) ==
    LET momentum == momentum_tool(snapshot, state)
        market_out == momentum.decision
        valuation_out == valuation_tool(snapshot, SYMBOLS, RISK_MAX_SHARES)
        risk_out == risk_tool(snapshot, market_out, valuation_out, allowlist,
                        market_is_open, RISK_MAX_SHARES, forced_veto)
    IN  [state |-> momentum.state,
         market |-> market_out,
         valuation |-> valuation_out,
         risk |-> risk_out,
         final |-> coordinate_tool(snapshot, market_out, valuation_out, risk_out)]

(* A call crew.kickoff(inputs={snapshot, symbols, market_is_open}). *)
Kickoff(snapshot, allowlist, market_is_open, forced_veto) ==
    /\ kickoffCall = NoKickoffCall
    /\ LET out == CrewKickoff(snapshot, market_state, allowlist, market_is_open,
                      forced_veto)
       IN  /\ market_state' = out.state
           /\ kickoffCall' = [called |-> TRUE, snapshot |-> snapshot,
                              allowlist |-> allowlist,
                              market_is_open |-> market_is_open,
                              forced_veto |-> forced_veto,
                              market |-> out.market, valuation |-> out.valuation,
                              risk |-> out.risk, final |-> out.final]
    /\ UNCHANGED <<rlVars, coVars, exVars, env, thVars, momentumCall, valuationCall,
                   flow, loop, decideCall>>

(* The caller takes the result of kickoff, or its exception. *)
KickoffReturn ==
    /\ kickoffCall # NoKickoffCall
    /\ kickoffCall' = NoKickoffCall
    /\ UNCHANGED <<rlVars, coVars, exVars, env, thVars, market_state, momentumCall,
                   valuationCall, flow, loop, decideCall>>

(* Books, prices and cash in half dollars: PLTR alone at $50 with $1000    *)
(* cash and no position; PLTR undervalued with cash below one share; PLTR  *)
(* held at the share cap and NFLX undervalued; PLTR held at +5 %; nothing  *)
(* to do.                                                                  *)
KickoffBooks ==
    {[prices |-> [s \in {"PLTR"} |-> 100], cash |-> 2000,
      positions |-> [s \in {"PLTR"} |-> 0], avg_entry_prices |-> NoPrices],
     [prices |-> [PLTR |-> 170, NFLX |-> 400], cash |-> 100,
      positions |-> [PLTR |-> 0, NFLX |-> 0], avg_entry_prices |-> NoPrices],
     [prices |-> [PLTR |-> 170, NFLX |-> 360], cash |-> 2000,
      positions |-> [PLTR |-> RISK_MAX_SHARES, NFLX |-> 0],
      avg_entry_prices |-> [s \in {"PLTR"} |-> 170]],
     [prices |-> [PLTR |-> 210, NFLX |-> 380], cash |-> 2000,
      positions |-> [PLTR |-> 1, NFLX |-> 0],
      avg_entry_prices |-> [s \in {"PLTR"} |-> 200]],
     [prices |-> [PLTR |-> 190, NFLX |-> 380], cash |-> 2000,
      positions |-> [PLTR |-> 0, NFLX |-> 0], avg_entry_prices |-> NoPrices]}
KickoffTimes == {NewYork(0, 9, 30), NewYork(5, 12, 0)}
KickoffSnapshots ==
    {[timestamp |-> ts, prices |-> b.prices, cash |-> b.cash,
      positions |-> b.positions, avg_entry_prices |-> b.avg_entry_prices] :
        ts \in KickoffTimes, b \in KickoffBooks}
KickoffMarketOpen == {"True", "False", None}
KickoffVetoes == {None, "market_closed"}

InitKickoff == InitCoord

NextKickoff ==
    \/ \E snapshot \in KickoffSnapshots, allowlist \in Allowlists,
          market_is_open \in KickoffMarketOpen, forced_veto \in KickoffVetoes :
          Kickoff(snapshot, allowlist, market_is_open, forced_veto)
    \/ KickoffReturn

SpecKickoff == InitKickoff /\ [][NextKickoff]_vars

(* The market is not closed for the observed kickoff: the flag says open,  *)
(* or it is unknown and the snapshot's timestamp is inside the session.    *)
KickoffMarketNotClosed ==
    /\ kickoffCall.forced_veto # "market_closed"
    /\ \/ kickoffCall.market_is_open = "True"
       \/ /\ kickoffCall.market_is_open = None
          /\ _is_market_open_at(kickoffCall.snapshot.timestamp)

(* The conditions under which symbol s may be bought on the snapshot. *)
BuyCovered(s) ==
    /\ KickoffMarketNotClosed
    /\ s \in kickoffCall.allowlist
    /\ Get(kickoffCall.snapshot.positions, s, 0) < RISK_MAX_SHARES
    /\ Get(kickoffCall.snapshot.prices, s, 0) > 0
    /\ kickoffCall.snapshot.cash >= Get(kickoffCall.snapshot.prices, s, 0)
SellCovered(s) == KickoffMarketNotClosed /\ s \in kickoffCall.allowlist

(* What the RiskGate stage guarantees for the proposal it approves. *)
ApprovedProposalCovered ==
    kickoffCall.called /\ kickoffCall.risk.status = "APPROVE" =>
        /\ kickoffCall.valuation.action = "BUY" =>
              BuyCovered(kickoffCall.valuation.symbol)
        /\ kickoffCall.valuation.action = "SELL" =>
              SellCovered(kickoffCall.valuation.symbol)
ApprovedBuy ==
    /\ kickoffCall.called
    /\ kickoffCall.risk.status = "APPROVE"
    /\ kickoffCall.valuation.action = "BUY"

(* No kickoff returns: coordinate_tool raises in every one of them. *)
KickoffAlwaysRaises ==
    kickoffCall.called => kickoffCall.final = AttributeError

(* C26: kickoff yields a final decision, and whenever that decision is a   *)
(* BUY of s the market is not closed, s is in the allowlist, positions[s]  *)
(* is below the per-symbol share cap, price[s] > 0 and cash >= price[s];   *)
(* whenever it is a SELL of s the market is not closed and s is in the     *)
(* allowlist.                                                              *)
C26_RiskGatesEveryTrade ==
    kickoffCall.called =>
        /\ kickoffCall.final.raised = None
        /\ kickoffCall.final.value.action = "BUY" =>
              BuyCovered(kickoffCall.final.value.symbol)
        /\ kickoffCall.final.value.action = "SELL" =>
              SellCovered(kickoffCall.final.value.symbol)

-----------------------------------------------------------------------------
(* TradingFlow.run_iteration (src/src/trading_flow.py): the trading loop.  *)
(* A tick is the body of the while loop: snapshot fetch behind the rate    *)
(* limiter, the crew, the conversion of the final decision, execute_action *)
(* and the portfolio report, all inside one try/except Exception.  stop()  *)
(* may be called at any moment from outside the loop.                      *)

MaxIteration == 5

(* The keys _build_snapshot waits for, in the order of its calls. *)
FlowKeys == <<"broker:get_cash", "broker:get_positions", "price:PLTR", "price:NFLX">>
FlowKeySet == {FlowKeys[i] : i \in 1 .. Len(FlowKeys)}

NoSnapshot == [timestamp |-> NoneNum]
NoCrewOutput == [called |-> FALSE]
NoDecision == [raised |-> "no decision"]
TypeError == [raised |-> "TypeError"]

(* TradingFlow after initialize(): RateLimiter(3, 1000, 5000), iteration 0. *)
NewFlow(max_iterations, loop_interval, market_is_open) ==
    [pc |-> "top", stop |-> FALSE, iteration |-> 0,
     max_iterations |-> max_iterations, loop_interval |-> loop_interval,
     market_is_open |-> market_is_open,
     hits |-> [key \in FlowKeySet |-> EmptyQueues], k |-> 0,
     snapshot |-> NoSnapshot, steps |-> <<>>, log |-> <<>>,
     crew |-> NoCrewOutput, decision |-> NoDecision,
     began_after_stop |-> FALSE, slept_after_stop |-> FALSE,
     backoff_after_stop |-> FALSE]

(* Where the loop goes on after `except Exception` has logged a failure:   *)
(* behind the try statement, or (variant) out of the loop.                 *)
OnFailure_leaves_loop == "stopped"
OnFailure == "after"

(* The tick ends in the except clause: "[error] Loop iteration failed". *)
Failed(f, at) == [f EXCEPT !.pc = OnFailure, !.log = Append(@, "failed: " \o at)]

(* TradingFlow._sanitize_decision_symbol(model) *)
_sanitize_decision_symbol(model) ==
    IF model.symbol = None THEN Returned(model)
    ELSE IF upper(model.symbol) \in FlowSymbols /\ model.symbol = upper(model.symbol)
    THEN Returned(model)
    ELSE IF ~HasAttr(model, "confidence") THEN AttributeError
    ELSE IF upper(model.symbol) \in FlowSymbols
    THEN Returned(DecisionModel(model.action, upper(model.symbol), model.reason,
                                model.confidence))
    ELSE Returned(DecisionModel("HOLD", None, "invalid symbol returned by agent",
                                model.confidence))

(* TradingFlow._to_decision(model): reads model.confidence and passes it   *)
(* to Decision, which has no such field.                                   *)
_to_decision(model) ==
    IF ~HasAttr(model, "confidence") THEN AttributeError ELSE TypeError

(* The conversions between kickoff and execute_action, in their order:     *)
(* the first exception, or the Decision.                                   *)
Converted(crew) ==
    IF crew.final.raised # None THEN crew.final
    ELSE IF _sanitize_decision_symbol(crew.market).raised # None
    THEN _sanitize_decision_symbol(crew.market)
    ELSE IF _sanitize_decision_symbol(crew.valuation).raised # None
    THEN _sanitize_decision_symbol(crew.valuation)
    ELSE IF _sanitize_decision_symbol(crew.final.value).raised # None
    THEN _sanitize_decision_symbol(crew.final.value)
    ELSE _to_decision(_sanitize_decision_symbol(crew.final.value).value)

(* `while not self._stop_requested:` and the first statement of the body. *)
FlowTop ==
    /\ flow.pc = "top"
    /\ IF flow.stop
       THEN flow' = [flow EXCEPT !.pc = "stopped"]
       ELSE /\ flow.iteration < MaxIteration
            /\ flow' = [flow EXCEPT !.pc = "snapshot", !.iteration = @ + 1, !.k = 1,
                                    !.steps = <<>>, !.snapshot = NoSnapshot,
                                    !.crew = NoCrewOutput, !.decision = NoDecision,
                                    !.began_after_stop = @ \/ flow.stop]
    /\ UNCHANGED <<rlVars, coVars, exVars, env, thVars, market_state, momentumCall,
                   valuationCall, kickoffCall, loop, decideCall>>

(* One pass of the loop of _wait_for_rate_limit(key) inside                *)
(* _build_snapshot: when allow(key) admits, the broker call that follows   *)
(* (it answers or raises); when it denies, time.sleep(0.2) is entered.     *)
FlowWaitForRateLimit(answer, book, ts) ==
    /\ flow.pc = "snapshot"
    /\ LET key == FlowKeys[flow.k]
           r == AllowOn(flow.hits[key], clock)
           polled == [flow EXCEPT !.hits[key] = r[2]]
       IN  IF ~r[1]
           THEN flow' = [polled EXCEPT !.pc = "backoff",
                                       !.backoff_after_stop = @ \/ flow.stop]
           ELSE IF answer = "raise"
           THEN flow' = Failed(polled, "snapshot")
           ELSE IF flow.k < Len(FlowKeys)
           THEN flow' = [polled EXCEPT !.k = @ + 1]
           ELSE flow' = [polled EXCEPT
                            !.pc = "crew", !.steps = <<"snapshot">>,
                            !.snapshot = [timestamp |-> ts, prices |-> book.prices,
                                          cash |-> book.cash,
                                          positions |-> book.positions,
                                          avg_entry_prices |-> book.avg_entry_prices]]
    /\ UNCHANGED <<rlVars, coVars, exVars, env, thVars, market_state, momentumCall,
                   valuationCall, kickoffCall, loop, decideCall>>

(* time.sleep(0.2) of _wait_for_rate_limit returns. *)
FlowBackoff ==
    /\ flow.pc = "backoff"
    /\ flow' = [flow EXCEPT !.pc = "snapshot"]
    /\ Elapse(clock + 1)
    /\ UNCHANGED <<coVars, exVars, env, thVars, market_state, momentumCall,
                   valuationCall, kickoffCall, loop, decideCall>>

(* The rest of the try body: crew.kickoff, the conversions, execute_action *)
(* and the portfolio report; any exception ends the tick in the except     *)
(* clause.                                                                 *)
FlowCrew ==
    /\ flow.pc = "crew"
    /\ LET crew == CrewKickoff(flow.snapshot, market_state, FlowSymbols,
                       flow.market_is_open, None)
           decision == Converted(crew)
           staged == [flow EXCEPT
                        !.steps = @ \o <<"momentum", "valuation", "risk", "coordinator">>,
                        !.crew = [called |-> TRUE, market |-> crew.market,
                                  valuation |-> crew.valuation, risk |-> crew.risk,
                                  final |-> crew.final],
                        !.decision = decision]
       IN  /\ market_state' = crew.state
           /\ IF decision.raised # None
              THEN /\ flow' = Failed(staged,
                                 IF crew.final.raised # None THEN "coordinator"
                                 ELSE "decision")
                   /\ UNCHANGED <<rlVars, exVars>>
              ELSE /\ ExecuteBody(NoClient, flow.snapshot, decision.value)
                   /\ flow' = [staged EXCEPT !.pc = "after",
                                             !.steps = @ \o <<"execute", "report">>,
                                             !.log = Append(@, "completed")]
                   /\ UNCHANGED rate_limiter
    /\ UNCHANGED <<coVars, env, thVars, momentumCall, valuationCall, kickoffCall, loop, decideCall>>

(* Behind the try statement: the max_iterations test, then the inter-tick  *)
(* sleep unless stop was requested.                                        *)
FlowAfter ==
    /\ flow.pc = "after"
    /\ IF flow.max_iterations # NoneNum /\ flow.iteration >= flow.max_iterations
       THEN flow' = [flow EXCEPT !.stop = TRUE, !.pc = "stopped"]
       ELSE IF ~flow.stop
       THEN flow' = [flow EXCEPT !.pc = "sleeping",
                                 !.slept_after_stop = @ \/ flow.stop]
       ELSE flow' = [flow EXCEPT !.pc = "top"]
    /\ UNCHANGED <<rlVars, coVars, exVars, env, thVars, market_state, momentumCall,
                   valuationCall, kickoffCall, loop, decideCall>>

(* self._sleep(self.loop_interval_seconds) returns. *)
FlowSleep ==
    /\ flow.pc = "sleeping"
    /\ flow' = [flow EXCEPT !.pc = "top"]
    /\ Elapse(clock + flow.loop_interval)
    /\ UNCHANGED <<coVars, exVars, env, thVars, market_state, momentumCall,
                   valuationCall, kickoffCall, loop, decideCall>>

(* stop(), called from outside the loop while it runs. *)
FlowStop ==
    /\ flow.pc \in {"top", "snapshot", "backoff", "crew", "after", "sleeping"}
    /\ ~flow.stop
    /\ flow' = [flow EXCEPT !.stop = TRUE]
    /\ UNCHANGED <<rlVars, coVars, exVars, env, thVars, market_state, momentumCall,
                   valuationCall, kickoffCall, loop, decideCall>>

(* What the broker reports (prices and cash in half dollars): PLTR alone   *)
(* at $50 with $1000 cash and no position; PLTR held at +5 %.              *)
FlowBooks ==
    {[prices |-> [s \in {"PLTR"} |-> 100], cash |-> 2000,
      positions |-> [s \in {"PLTR"} |-> 0], avg_entry_prices |-> NoPrices],
     [prices |-> [PLTR |-> 210, NFLX |-> 380], cash |-> 2000,
      positions |-> [PLTR |-> 1, NFLX |-> 0],
      avg_entry_prices |-> [s \in {"PLTR"} |-> 200]]}
FlowTimes == {NewYork(0, 9, 30)}
FlowAnswers == {"ok", "raise"}
FlowMaxIterations == {NoneNum, 2}
FlowIntervals == {0, 5 * TicksPerSecond}
FlowMarketOpen == {"True", None}

(* The process when initialize() has returned "ready". *)
FlowReady ==
    /\ NewLimiter
    /\ per_second = 3
    /\ per_hour = 1000
    /\ per_day = 5000
    /\ last_sell_ts = [s \in Symbols |-> NoneNum]
    /\ env = DefaultEnv
    /\ rate_limiter = "RateLimiter"
    /\ coordCall = NoCoordCall
    /\ riskCall = NoRiskCall
    /\ last_order = [k \in OrderKeys |-> NoRecord]
    /\ execCall = NoExecCall
    /\ nExec = 0
    /\ market_state = NoPrices
    /\ momentumCall = NoMomentumCall
    /\ valuationCall = NoValuationCall
    /\ kickoffCall = NoKickoffCall
    /\ loop = NoLoop
    /\ decideCall = NoDecideCall

InitFlow ==
    /\ FlowReady
    /\ \E max_iterations \in FlowMaxIterations, loop_interval \in FlowIntervals,
          market_is_open \in FlowMarketOpen :
          flow = NewFlow(max_iterations, loop_interval, market_is_open)

NextFlow ==
    \/ FlowTop
    \/ \E answer \in FlowAnswers, book \in FlowBooks, ts \in FlowTimes :
          FlowWaitForRateLimit(answer, book, ts)
    \/ FlowBackoff
    \/ FlowCrew
    \/ FlowAfter
    \/ FlowSleep
    \/ FlowStop

SpecFlow == InitFlow /\ [][NextFlow]_vars


-----------------------------------------------------------------------------
(* Properties of the trading loop *)

TickOrder == <<"snapshot", "momentum", "valuation", "risk", "coordinator", "execute", "report">>
IsPrefix(s, t) == Len(s) <= Len(t) /\ \A i \in 1 .. Len(s) : s[i] = t[i]
TickRunning == flow.pc \in {"snapshot", "backoff", "crew"}

(* Within a tick the steps come in the order of TickOrder, each at most    *)
(* once; a tick is running or has its line in the log, never both; the     *)
(* loop is left only with the stop flag set.                               *)
TicksInOrder ==
    /\ IsPrefix(flow.steps, TickOrder)
    /\ Len(flow.log) = IF TickRunning THEN flow.iteration - 1 ELSE flow.iteration
    /\ flow.pc = "stopped" => flow.stop

(* A step of the next tick is taken only when the previous tick has its    *)
(* line in the log, and a tick that failed leaves the loop running.        *)
TicksSequential ==
    /\ flow'.iteration # flow.iteration =>
          /\ flow'.iteration = flow.iteration + 1
          /\ Len(flow.log) = flow.iteration
          /\ flow'.steps = <<>>
    /\ Len(flow'.log) > Len(flow.log) /\ flow'.log[Len(flow'.log)] # "completed" =>
          flow'.pc = "after"

StopEndsTheLoop == ~flow.began_after_stop /\ ~flow.slept_after_stop

(* C22: once stop() has been requested no new tick begins and no further   *)
(* blocking wait is entered, neither the inter-tick sleep nor a rate-limit *)
(* backoff sleep; the tick in progress finishes.                           *)
C22_CooperativeCancellation ==
    /\ ~flow.began_after_stop
    /\ ~flow.slept_after_stop
    /\ ~flow.backoff_after_stop

(* A backoff sleep entered with the stop flag already set. *)
BackoffAfterStop ==
    /\ flow.pc = "backoff"
    /\ flow.stop
    /\ flow.backoff_after_stop

(* stop() arrived during a tick, the tick ran to its end and no other tick *)
(* began.                                                                  *)
StoppedAfterTick ==
    /\ flow.pc = "stopped"
    /\ flow.max_iterations = NoneNum
    /\ flow.iteration = 1
    /\ flow.log = <<"failed: coordinator">>

(* The tick of the scenario: PLTR alone at $50, cash $1000, no position,   *)
(* market open, has run through the try body.                              *)
ScenarioTick ==
    /\ flow.pc \in {"after", "stopped"}
    /\ flow.crew.called
    /\ flow.snapshot.prices = [s \in {"PLTR"} |-> 100]
    /\ flow.snapshot.cash = 2000
    /\ flow.market_is_open = "True"

(* The stages of the scenario before the Coordinator. *)
ScenarioStaged ==
    ScenarioTick =>
        /\ flow.crew.valuation.action = "BUY"
        /\ flow.crew.valuation.symbol = "PLTR"
        /\ flow.crew.risk.status = "APPROVE"
ScenarioReached == ScenarioTick /\ flow.crew.risk.status = "APPROVE"

(* C24: on the tick with prices {PLTR: 50.0}, cash 1000, position 0, fair  *)
(* value 95, market open and PLTR allowed, Valuation produces BUY PLTR,    *)
(* RiskGate approves, the Coordinator's final decision is BUY PLTR, and    *)
(* the executor in dry-run mode logs a would-be BUY of 1 PLTR without      *)
(* calling the order client.                                               *)
C24_EndToEnd ==
    ScenarioTick =>
        /\ flow.crew.valuation.action = "BUY"
        /\ flow.crew.valuation.symbol = "PLTR"
        /\ flow.crew.risk.status = "APPROVE"
        /\ flow.crew.final.raised = None
        /\ flow.crew.final.value.action = "BUY"
        /\ flow.crew.final.value.symbol = "PLTR"
        /\ flow.decision.raised = None
        /\ execCall.called
        /\ execCall.action = flow.decision.value
        /\ execCall.outcome = Outcome("DRY_RUN", 1, 0)

(* C25: every tick that ran the crew has a final decision, converted by    *)
(* _to_decision, whose symbol is set iff its action is not HOLD and whose  *)
(* qty is 0 for HOLD and 1 for BUY and SELL.                               *)
C25_DecisionWellFormed ==
    flow.crew.called =>
        /\ flow.decision.raised = None
        /\ flow.decision.value.symbol # None <=> flow.decision.value.action # "HOLD"
        /\ flow.decision.value.qty = IF flow.decision.value.action = "HOLD" THEN 0 ELSE 1

(* No tick gets a Decision: the Coordinator or the conversion raises. *)
NoDecisionEver == flow.crew.called => flow.decision.raised # None
NoExecuteEver == ~execCall.called /\ \A i \in 1 .. Len(flow.log) : flow.log[i] # "completed"

-----------------------------------------------------------------------------
(* Properties of execute_action: cooldown record and execution mode *)

(* A step that is one call of execute_action. *)
ExecuteStep == execCall = NoExecCall /\ execCall'.called

(* The record after a call: written at (symbol, side) with (now, price)    *)
(* when the call passed the guards and clamps, whatever happened next;     *)
(* left as it was by a HOLD, an invalid payload or a skipped call.         *)
RecordWrittenBeforeMode ==
    ExecuteStep =>
        last_order' =
            IF execCall'.outcome.kind \in Proceeded
            THEN [last_order EXCEPT
                    ![<<upper(execCall'.action.symbol), execCall'.action.action>>] =
                        <<execCall'.now,
                          Get(execCall'.snapshot.prices,
                              upper(execCall'.action.symbol), 0)>>]
            ELSE last_order

(* The observed call is a BUY that reached the cooldown step, with a       *)
(* recorded attempt inside buy_cooldown_seconds at the same price.         *)
SecondBuyAtSamePrice ==
    /\ execCall.called
    /\ execCall.action.action = "BUY"
    /\ execCall.outcome.kind \notin {"INVALID", "RAISED", "SKIP_OPEN_ORDER", "SKIP_PRICE"}
    /\ execCall.previous # NoRecord
    /\ InsideWindow(execCall.previous)
    /\ CallPrice = execCall.previous[2]

(* C33 as stated: the record is written for every BUY attempt that passes  *)
(* the guards and clamps, before the execution mode is looked at, and left *)
(* unchanged otherwise; a second BUY inside buy_cooldown_seconds at an     *)
(* unchanged price is skipped.                                             *)
C33_RecordBeforeMode_AsStated ==
    /\ [](SecondBuyAtSamePrice => execCall.outcome.kind = "SKIP_COOLDOWN")
    /\ [][RecordWrittenBeforeMode]_vars

(* C33: the record is written for every BUY attempt that passes the guards *)
(* and clamps, before the execution mode is looked at, and left unchanged  *)
(* otherwise; a second BUY inside buy_cooldown_seconds at an unchanged     *)
(* price is skipped when price_move_bypass_pct is positive.                *)
C33_RecordBeforeMode ==
    /\ []((SecondBuyAtSamePrice /\ _read_limits.price_move_bypass_pct > 0) =>
              execCall.outcome.kind = "SKIP_COOLDOWN")
    /\ [][RecordWrittenBeforeMode]_vars

(* In dry-run mode the second BUY at the same price is skipped: the record *)
(* it found can only have been written by a dry-run attempt.               *)
C33_Witness ==
    /\ env.EXECUTE # "1"
    /\ SecondBuyAtSamePrice
    /\ _read_limits.price_move_bypass_pct > 0
    /\ execCall.outcome.kind = "SKIP_COOLDOWN"
    /\ execCall.now > execCall.previous[1]

(* In live mode a BUY is skipped by the cooldown although no order was     *)
(* ever submitted: the record was written by an attempt without a client.  *)
SkippedAfterMissingClient ==
    /\ env.EXECUTE = "1"
    /\ rate_limiter # None
    /\ SecondBuyAtSamePrice
    /\ execCall.outcome.kind = "SKIP_COOLDOWN"
    /\ admitted[SubmitKey] = <<>>

(* With a zero bypass threshold a second BUY at the same price inside the  *)
(* window is executed.                                                     *)
ZeroBypassNeverSkips ==
    /\ SecondBuyAtSamePrice
    /\ _read_limits.price_move_bypass_pct = 0
    /\ execCall.outcome.kind = "DRY_RUN"

(* The observed call is a SELL with a symbol and a positive quantity that  *)
(* the open-order guard let through.                                       *)
SellPastGuards ==
    /\ execCall.called
    /\ execCall.action.action = "SELL"
    /\ execCall.action.symbol \notin {None, ""}
    /\ execCall.action.qty > 0
    /\ execCall.outcome.kind \notin {"RAISED", "SKIP_OPEN_ORDER"}

(* A SELL call leaves every BUY record as it was. *)
SellKeepsBuyRecords ==
    (ExecuteStep /\ execCall'.action.action = "SELL") =>
        \A s \in Symbols : last_order'[<<s, "BUY">>] = last_order[<<s, "BUY">>]

SellInsideBuyCooldown ==
    /\ SellPastGuards
    /\ execCall.outcome.kind = "ORDER_SENT"
    /\ execCall.previous # NoRecord
    /\ InsideWindow(execCall.previous)
    /\ SmallMove(execCall.previous)

(* A call that reached submit_order did so at the instant of a successful  *)
(* allow("executor:submit_order"), the limiter's latest call.              *)
SubmitPrecededByAllow ==
    (execCall.called /\ execCall.outcome.submits = 1) =>
        /\ last = [key |-> SubmitKey, now |-> clock, result |-> TRUE]
        /\ admitted[SubmitKey] # <<>>
        /\ admitted[SubmitKey][Len(admitted[SubmitKey])] = clock
        /\ clock >= execCall.now

(* Each call of execute_action adds as many admissions of the submit key   *)
(* as it makes submit_order calls: the admissions are the submissions.     *)
OneAdmissionPerSubmit ==
    ExecuteStep =>
        Len(admitted'[SubmitKey]) = Len(admitted[SubmitKey]) + execCall'.outcome.submits

(* C35: with a RateLimiter configured, every submit_order call made by     *)
(* execute_action directly follows a successful allow of the submit key,   *)
(* and the number of submit_order calls inside any window of 1 s, 3600 s   *)
(* or 86400 s never exceeds per_second, per_hour or per_day.               *)
C35_SubmitRateLimited ==
    /\ [](rate_limiter # None =>
            /\ SubmitPrecededByAllow
            /\ \A t \in WindowEnds(SubmitKey) :
                  /\ AdmittedIn(SubmitKey, t, SecondWindow) <= per_second
                  /\ AdmittedIn(SubmitKey, t, HourWindow) <= per_hour
                  /\ AdmittedIn(SubmitKey, t, DayWindow) <= per_day)
    /\ [][rate_limiter # None => OneAdmissionPerSubmit]_vars

(* The second of two live submissions had to wait: it was admitted exactly *)
(* one second after the first, later than the call's own clock reading.    *)
C35_Witness ==
    /\ rate_limiter # None
    /\ execCall.called
    /\ execCall.outcome.submits = 1
    /\ Len(admitted[SubmitKey]) = 2
    /\ admitted[SubmitKey][2] = admitted[SubmitKey][1] + SecondWindow
    /\ execCall.now < clock

-----------------------------------------------------------------------------
(* Shape of the RateLimiter's queues *)

Sorted(q) == \A i, j \in 1 .. Len(q) : i <= j => q[i] <= q[j]

IsSuffix(a, b) ==
    /\ Len(a) <= Len(b)
    /\ \A i \in 1 .. Len(a) : a[i] = b[Len(b) - Len(a) + i]

(* Every queue is sorted, and for each key the second queue is a suffix of *)
(* the hour queue, which is a suffix of the day queue.                     *)
QueueShape ==
    \A k \in Keys :
        /\ Sorted(secHits[k]) /\ Sorted(hourHits[k]) /\ Sorted(dayHits[k])
        /\ IsSuffix(secHits[k], hourHits[k])
        /\ IsSuffix(hourHits[k], dayHits[k])

(* The entries of q that have not expired at now. *)
Unexpired(q, now, window) == SelectSeq(q, LAMBDA e : e > now - window)

(* A call of allow leaves in each queue of its key exactly the unexpired   *)
(* entries, in their order, followed by now if the call was admitted.      *)
PrunesExactlyExpired ==
    nCalls' = nCalls + 1 =>
        LET k == last'.key
            new == IF last'.result THEN <<clock>> ELSE <<>>
        IN  /\ secHits'[k] = Unexpired(secHits[k], clock, SecondWindow) \o new
            /\ hourHits'[k] = Unexpired(hourHits[k], clock, HourWindow) \o new
            /\ dayHits'[k] = Unexpired(dayHits[k], clock, DayWindow) \o new

(* C40: under a non-decreasing clock, after any sequence of allow calls    *)
(* every queue is sorted and second, hour and day queues of a key are      *)
(* suffixes of one another; pruning from the front removes exactly the     *)
(* expired entries and leaves none behind.                                 *)
C40_QueueShape == []QueueShape /\ [][PrunesExactlyExpired]_vars

(* An admitted call pruned an expired entry from the second queue and     *)
(* kept it in the hour and day queues, of which the second queue is a      *)
(* proper suffix.                                                          *)
C40_Witness ==
    /\ last.result
    /\ clock = last.now
    /\ secHits[last.key] = <<last.now>>
    /\ Len(hourHits[last.key]) = 2
    /\ Len(dayHits[last.key]) = 2
    /\ hourHits[last.key][1] <= last.now - SecondWindow

(* A denied call pruned two expired entries from the second queue at once. *)
PrunedTwoAtOnce ==
    /\ ~last.result
    /\ clock = last.now
    /\ secHits[last.key] = <<>>
    /\ Len(hourHits[last.key]) = 2
    /\ hourHits[last.key][2] <= last.now - SecondWindow

-----------------------------------------------------------------------------
(* The backoff loop of _wait_for_rate_limit (src/src/trade_executor.py,    *)
(* src/src/trading_flow.py), one poll and one sleep at a time              *)

(* Variant of the sleep during which the clock does not advance. *)
Slept_no_advance(now) == now

(* time.sleep(0.2): the clock after the sleep, one tick later. *)
Slept(now) == now + 1

Waiter == "trade_executor"

(* _wait_for_rate_limit(key) is entered with a limiter configured. *)
WaitEnter(key) ==
    /\ pc[Waiter] = "idle"
    /\ pc' = [pc EXCEPT ![Waiter] = "poll"]
    /\ frame' = [frame EXCEPT ![Waiter] =
                    [key |-> key, now |-> clock, checked |-> EmptyQueues,
                     returned |-> None]]
    /\ UNCHANGED <<rlVars, coVars, exVars, env, crVars>>

(* while not _rate_limiter.allow(key): one call of allow; True leaves the  *)
(* loop, False goes on to the sleep.                                       *)
WaitPoll ==
    /\ pc[Waiter] = "poll"
    /\ LET key == frame[Waiter].key
           r == AllowOn(QueuesOf(key), clock)
       IN  /\ StoreHits(key, r[2])
           /\ last' = [key |-> key, now |-> clock, result |-> r[1]]
           /\ admitted' = IF r[1]
                          THEN [admitted EXCEPT ![key] = Append(@, clock)]
                          ELSE admitted
           /\ Observed(key, clock)
           /\ pc' = [pc EXCEPT ![Waiter] = IF r[1] THEN "returned" ELSE "sleep"]
           /\ frame' = [frame EXCEPT ![Waiter].checked = r[2],
                                     ![Waiter].returned =
                                         IF r[1] THEN "True" ELSE "False"]
    /\ UNCHANGED <<clock, per_second, per_hour, per_day, nCalls, nTicks>>
    /\ UNCHANGED <<coVars, exVars, env, crVars>>

(* time.sleep(0.2) returns and the loop polls again. *)
WaitSleep ==
    /\ pc[Waiter] = "sleep"
    /\ pc' = [pc EXCEPT ![Waiter] = "poll"]
    /\ clock' = Slept(clock)
    /\ UNCHANGED <<per_second, per_hour, per_day, secHits, hourHits, dayHits,
                   last, admitted, solo, lazy, nCalls, nTicks, frame>>
    /\ UNCHANGED <<coVars, exVars, env, crVars>>

(* Capacities <<per_second, per_hour, per_day>> of the limiter the loop    *)
(* polls: the second window alone fills up, or the hour window with it;    *)
(* the day window keeps the configured 5000.                               *)
WaitCapacities == {<<1, 1000, 5000>>, <<2, 1000, 5000>>, <<1, 1, 5000>>, <<2, 2, 5000>>}

InitWait ==
    /\ NewLimiter
    /\ \E capacities \in WaitCapacities :
          /\ per_second = capacities[1]
          /\ per_hour = capacities[2]
          /\ per_day = capacities[3]
    /\ last_sell_ts = [s \in Symbols |-> NoneNum]
    /\ env = DefaultEnv
    /\ coordCall = NoCoordCall
    /\ riskCall = NoRiskCall
    /\ IdleCrew
    /\ IdleExecutor

NextWait ==
    \/ pc[Waiter] = "idle" /\ allow(SubmitKey)
    \/ WaitEnter(SubmitKey)
    \/ WaitPoll
    \/ WaitSleep

SpecWaitSteps == InitWait /\ [][NextWait]_vars

(* The loop is a running thread: a poll that is due is made, and a sleep   *)
(* that was started returns.                                               *)
SpecWait == SpecWaitSteps /\ WF_vars(WaitPoll) /\ WF_vars(WaitSleep)

(* After a denied poll some queue of the key is at capacity and its oldest *)
(* entry has not yet left its window.                                      *)
Blocked(hits, capacity, window) ==
    /\ Len(hits) >= capacity
    /\ hits # <<>>
    /\ Head(hits) > clock - window

DeniedOnlyWhileBlocked ==
    pc[Waiter] = "sleep" =>
        LET key == frame[Waiter].key
        IN  \/ Blocked(secHits[key], per_second, SecondWindow)
            \/ Blocked(hourHits[key], per_hour, HourWindow)
            \/ Blocked(dayHits[key], per_day, DayWindow)

(* allow() itself takes no time: a poll leaves the clock where it was. *)
PollDoesNotBlock ==
    (pc[Waiter] = "poll" /\ pc'[Waiter] # "poll") => clock' = clock

(* C36: with every capacity at least 1 and the clock advancing by the      *)
(* backoff interval between polls, _wait_for_rate_limit(key) eventually    *)
(* returns; a poll is denied only while the oldest entry of a full queue   *)
(* is still inside its window, and allow() never blocks.                   *)
C36_BackoffTerminates ==
    /\ (pc[Waiter] = "poll") ~> (pc[Waiter] = "returned")
    /\ []DeniedOnlyWhileBlocked
    /\ [][PollDoesNotBlock]_vars

(* The loop was entered with the second window full, polled and slept     *)
(* until the oldest entry left the window, and returned at that instant.   *)
C36_Witness ==
    /\ pc[Waiter] = "returned"
    /\ frame[Waiter].returned = "True"
    /\ per_second = 2
    /\ Len(admitted[frame[Waiter].key]) = 3
    /\ clock = frame[Waiter].now + SecondWindow
    /\ admitted[frame[Waiter].key][1] + SecondWindow = clock

(* The loop returned after waiting for the hour window to free a slot. *)
WaitedForHourWindow ==
    /\ pc[Waiter] = "returned"
    /\ frame[Waiter].returned = "True"
    /\ clock > frame[Waiter].now + SecondWindow
    /\ admitted[frame[Waiter].key][1] + HourWindow = clock

-----------------------------------------------------------------------------
(* TradingFlow.run_iteration left to itself: nobody calls stop() from      *)
(* outside, and the loop's thread keeps running                            *)

NextRun ==
    \/ FlowTop
    \/ \E answer \in FlowAnswers, book \in FlowBooks, ts \in FlowTimes :
          FlowWaitForRateLimit(answer, book, ts)
    \/ FlowBackoff
    \/ FlowCrew
    \/ FlowAfter
    \/ FlowSleep

(* TradingFlow(max_iterations=N, sleep_fn=lambda _seconds: None) with      *)
(* LOOP_INTERVAL_SEC=0: the fourth tick meets the limiter's per-second     *)
(* capacity of 3 and backs off.                                            *)
RunMaxIterations == {0, 2, 4}

InitRun ==
    /\ FlowReady
    /\ \E max_iterations \in RunMaxIterations :
          flow = NewFlow(max_iterations, 0, "True")

SpecRunSteps == InitRun /\ [][NextRun]_vars

(* Every statement of the loop that can run does run: broker calls answer  *)
(* or raise, and the sleeps return.                                        *)
SpecRun == SpecRunSteps /\ WF_vars(NextRun)

(* run_iteration has returned "stopped". *)
RunReturned == flow.pc = "stopped"

(* execute_action was called at most once in the tick in progress, and at  *)
(* most once per tick begun so far.                                        *)
ExecutedAtMostOncePerTick ==
    /\ Len(SelectSeq(flow.steps, LAMBDA s : s = "execute")) <= 1
    /\ nExec <= flow.iteration

ZeroIterationsRunsOneTick ==
    /\ RunReturned
    /\ flow.max_iterations = 0
    /\ flow.iteration = 1

-----------------------------------------------------------------------------
(* agent_trader.run_trading_loop (src/src/agent_trader.py) *)

(* The loop's locals at its first statement; stop_event is the caller's    *)
(* threading.Event.                                                        *)
NewLoop(max_iterations) ==
    [pc |-> "top", iteration |-> 0, stop_event |-> FALSE,
     max_iterations |-> max_iterations, log |-> <<>>]

(* while not stop_event.is_set(): the loop ends, or the try statement is   *)
(* entered and iteration += 1.                                             *)
LoopTop ==
    /\ loop.pc = "top"
    /\ IF loop.stop_event
       THEN loop' = [loop EXCEPT !.pc = "returned"]
       ELSE /\ loop.iteration < MaxIteration
            /\ loop' = [loop EXCEPT !.pc = "body", !.iteration = @ + 1]
    /\ UNCHANGED <<rlVars, coVars, exVars, env, thVars, market_state, momentumCall,
                   valuationCall, kickoffCall, flow, decideCall>>

(* The try body runs to its end: snapshot, agents, aggregation,            *)
(* execute_action and the report; then the max_iterations test, which      *)
(* returns, or stop_event.wait(loop_interval_seconds).                     *)
LoopBody(snapshot, chosen_action) ==
    /\ loop.pc = "body"
    /\ ExecuteBody(NoClient, snapshot, chosen_action)
    /\ loop' = [loop EXCEPT
                  !.log = Append(@, "ok"),
                  !.pc = IF /\ loop.max_iterations # NoneNum
                            /\ loop.iteration >= loop.max_iterations
                         THEN "returned" ELSE "waiting"]
    /\ UNCHANGED <<coVars, env, rate_limiter, thVars, market_state, momentumCall,
                   valuationCall, kickoffCall, flow, decideCall>>

(* A statement of the try body raises: `except KeyboardInterrupt` sets the *)
(* stop event, `except Exception` logs and waits; both go on to the loop   *)
(* condition.                                                              *)
LoopRaise(exception) ==
    /\ loop.pc = "body"
    /\ loop' = IF exception = "KeyboardInterrupt"
               THEN [loop EXCEPT !.log = Append(@, exception),
                                 !.stop_event = TRUE, !.pc = "top"]
               ELSE [loop EXCEPT !.log = Append(@, exception), !.pc = "waiting"]
    /\ UNCHANGED <<rlVars, coVars, exVars, env, thVars, market_state, momentumCall,
                   valuationCall, kickoffCall, flow, decideCall>>

(* stop_event.wait(loop_interval_seconds) returns. *)
LoopWait ==
    /\ loop.pc = "waiting"
    /\ loop' = [loop EXCEPT !.pc = "top"]
    /\ UNCHANGED <<rlVars, coVars, exVars, env, thVars, market_state, momentumCall,
                   valuationCall, kickoffCall, flow, decideCall>>

(* The signal handler of main() sets the stop event while the loop runs. *)
LoopSignal ==
    /\ loop.pc \in {"top", "body", "waiting"}
    /\ ~loop.stop_event
    /\ loop' = [loop EXCEPT !.stop_event = TRUE]
    /\ UNCHANGED <<rlVars, coVars, exVars, env, thVars, market_state, momentumCall,
                   valuationCall, kickoffCall, flow, decideCall>>

LoopMaxIterations == {NoneNum, 1, 2}

(* What the broker reports (half dollars): PLTR at $100, $5000 cash, one   *)
(* share held; and what the agents' votes aggregate to.                    *)
LoopSnapshots == {Snapshot([s \in {"PLTR"} |-> 200], 10000, [s \in {"PLTR"} |-> 1])}
LoopDecisions ==
    {Decision("HOLD", None, 0, "all agents hold"),
     Decision("BUY", "PLTR", 1, "BUY:PLTR:momentum up")}
LoopExceptions == {"Exception", "KeyboardInterrupt"}

(* run_trading_loop(broker, api_client=None, symbols, rate_limiter=None,   *)
(* stop_event=threading.Event(), loop_interval_seconds=0.0,                *)
(* max_iterations) in dry-run mode.                                        *)
InitLoop ==
    /\ NewLimiter
    /\ per_second = 3
    /\ per_hour = 1000
    /\ per_day = 5000
    /\ last_sell_ts = [s \in Symbols |-> NoneNum]
    /\ env = DefaultEnv
    /\ rate_limiter = None
    /\ coordCall = NoCoordCall
    /\ riskCall = NoRiskCall
    /\ last_order = [k \in OrderKeys |-> NoRecord]
    /\ execCall = NoExecCall
    /\ nExec = 0
    /\ market_state = NoPrices
    /\ momentumCall = NoMomentumCall
    /\ valuationCall = NoValuationCall
    /\ kickoffCall = NoKickoffCall
    /\ flow = NoFlow
    /\ decideCall = NoDecideCall
    /\ \E max_iterations \in LoopMaxIterations : loop = NewLoop(max_iterations)

NextLoop ==
    \/ LoopTop
    \/ \E snapshot \in LoopSnapshots, chosen_action \in LoopDecisions :
          LoopBody(snapshot, chosen_action)
    \/ \E exception \in LoopExceptions : LoopRaise(exception)
    \/ LoopWait
    \/ LoopSignal
    \/ ExecReturn

SpecLoop == InitLoop /\ [][NextLoop]_vars

(* Iterations of the loop that raised Exception. *)
LoopFailures == SelectSeq(loop.log, LAMBDA o : o = "Exception")

(* A KeyboardInterrupt inside an iteration sets the stop event, and the    *)
(* loop condition that follows ends the loop.                              *)
KeyboardInterruptStops ==
    (loop.log # <<>> /\ loop.log[Len(loop.log)] = "KeyboardInterrupt") =>
        /\ loop.stop_event
        /\ loop.pc \in {"top", "returned"}

(* Without a failed iteration the loop never starts iteration N + 1. *)
ReturnsAfterNWithoutFailure ==
    (loop.max_iterations # NoneNum /\ LoopFailures = <<>>) =>
        loop.iteration <= loop.max_iterations

(* C38: with max_iterations = N the loop returns after N iterations        *)
(* whatever happens inside them, so iteration N + 1 never starts, and it   *)
(* returns with the stop event unset only after iteration N; a             *)
(* KeyboardInterrupt inside an iteration sets the stop event and ends the  *)
(* loop.                                                                   *)
C38_LoopReturnsAfterN ==
    /\ loop.max_iterations # NoneNum => loop.iteration <= loop.max_iterations
    /\ (loop.pc = "returned" /\ ~loop.stop_event) =>
          loop.iteration = loop.max_iterations
    /\ KeyboardInterruptStops

(* Iteration 1 of max_iterations = 1 raised, the stop event is not set,    *)
(* and the loop is in its second iteration.                                *)
LoopRunsPastMax ==
    /\ loop.max_iterations = 1
    /\ loop.log = <<"Exception">>
    /\ ~loop.stop_event
    /\ loop.iteration = 2

-----------------------------------------------------------------------------
(* Plain coordinator (src/src/crew_decider.py, CoordinatorAgent) *)

(* A text is the sequence of its pieces: "VETO: cash too low" is           *)
(* <<"VETO", ":", " cash too low">>.                                       *)
startswith(text, prefix) ==
    /\ Len(text) >= Len(prefix)
    /\ SubSeq(text, 1, Len(prefix)) = prefix

Contains(text, part) ==
    \E i \in 1 .. Len(text) - Len(part) + 1 :
        SubSeq(text, i, i + Len(part) - 1) = part

TextUpper(text) == [i \in 1 .. Len(text) |-> upper(text[i])]

(* merged: "market=A:r | valuation=A:r | risk=r". *)
Merged(market, valuation, risk) ==
    <<"market=", market.action, ":">> \o market.reason
      \o <<" | ", "valuation=", valuation.action, ":">> \o valuation.reason
      \o <<" | ", "risk=">> \o risk.reason

(* Variant of decide that looks at Momentum before Valuation. *)
CoordinatorAgent_decide_market_first(market, valuation, risk) ==
    LET merged == Merged(market, valuation, risk)
    IN  IF startswith(TextUpper(risk.reason), <<"VETO">>)
        THEN Decision("HOLD", None, 0, merged)
        ELSE IF market.action \in {"BUY", "SELL"}
        THEN Decision(market.action, market.symbol, market.qty, merged)
        ELSE IF valuation.action \in {"BUY", "SELL"}
        THEN Decision(valuation.action, valuation.symbol, valuation.qty, merged)
        ELSE Decision("HOLD", None, 0, merged)

(* CoordinatorAgent(market, valuation, risk).decide(snapshot) *)
CoordinatorAgent_decide(market, valuation, risk) ==
    LET merged == Merged(market, valuation, risk)
    IN  IF startswith(TextUpper(risk.reason), <<"VETO">>)
        THEN Decision("HOLD", None, 0, merged)
        ELSE IF valuation.action \in {"BUY", "SELL"}
        THEN Decision(valuation.action, valuation.symbol, valuation.qty, merged)
        ELSE IF market.action \in {"BUY", "SELL"}
        THEN Decision(market.action, market.symbol, market.qty, merged)
        ELSE Decision("HOLD", None, 0, merged)

(* What MarketAgent.decide, ValuationAgent.decide and RiskAgent.decide     *)
(* return.                                                                 *)
MarketAgentDecisions ==
    {Decision("HOLD", None, 0, <<"no momentum signal">>),
     Decision("HOLD", None, 0, <<"momentum neutral ", "0.50%">>)}
      \cup {Decision("BUY", s, 1, <<"momentum up ", "2.00%">>) : s \in FlowSymbols}
      \cup {Decision("SELL", s, 1, <<"momentum down ", "2.00%">>) : s \in FlowSymbols}
ValuationAgentDecisions ==
    {Decision("HOLD", None, 0, <<"not undervalued enough">>)}
      \cup {Decision("BUY", s, 1, <<"score=", "0.050">>) : s \in FlowSymbols}
      \cup {Decision("SELL", s, 1, <<"score=", "-0.050">>) : s \in FlowSymbols}
RiskAgentDecisions ==
    {Decision("HOLD", None, 0, <<"APPROVE", ":", " risk checks passed">>),
     Decision("HOLD", None, 0, <<"VETO", ":", " market closed">>),
     Decision("HOLD", None, 0, <<"VETO", ":", " symbol not allowed (", "NFLX", ")">>),
     Decision("HOLD", None, 0, <<"VETO", ":", " price missing for ", "PLTR">>),
     Decision("HOLD", None, 0, <<"VETO", ":", " cash too low">>)}

(* coordinator.decide(snapshot) inside crew_decider.decide. *)
Decide(market, valuation, risk) ==
    /\ decideCall = NoDecideCall
    /\ decideCall' = [called |-> TRUE, market |-> market, valuation |-> valuation,
                      risk |-> risk,
                      final |-> CoordinatorAgent_decide(market, valuation, risk)]
    /\ UNCHANGED <<rlVars, coVars, exVars, env, thVars, market_state, momentumCall,
                   valuationCall, kickoffCall, flow, loop>>

(* The caller takes the final decision. *)
DecideReturn ==
    /\ decideCall # NoDecideCall
    /\ decideCall' = NoDecideCall
    /\ UNCHANGED <<rlVars, coVars, exVars, env, thVars, market_state, momentumCall,
                   valuationCall, kickoffCall, flow, loop>>

InitDecide == InitCoord

NextDecide ==
    \/ \E market \in MarketAgentDecisions, valuation \in ValuationAgentDecisions,
          risk \in RiskAgentDecisions :
          Decide(market, valuation, risk)
    \/ DecideReturn

SpecDecide == InitDecide /\ [][NextDecide]_vars

(* The final decision repeats the action, symbol and quantity of d. *)
FinalFollows(d) ==
    /\ decideCall.final.action = d.action
    /\ decideCall.final.symbol = d.symbol
    /\ decideCall.final.qty = d.qty

FinalIsHold ==
    /\ decideCall.final.action = "HOLD"
    /\ decideCall.final.symbol = None
    /\ decideCall.final.qty = 0

(* C39: if the risk decision's reason starts with VETO the final decision  *)
(* is HOLD and its reason contains "risk=VETO:"; otherwise Valuation's     *)
(* BUY/SELL is the final decision whatever Momentum says; otherwise        *)
(* Momentum's BUY/SELL is; otherwise HOLD.                                 *)
C39_PlainCoordinator ==
    decideCall.called =>
        IF startswith(decideCall.risk.reason, <<"VETO">>)
        THEN /\ FinalIsHold
             /\ Contains(decideCall.final.reason, <<"risk=", "VETO", ":">>)
        ELSE IF decideCall.valuation.action \in {"BUY", "SELL"}
        THEN FinalFollows(decideCall.valuation)
        ELSE IF decideCall.market.action \in {"BUY", "SELL"}
        THEN FinalFollows(decideCall.market)
        ELSE FinalIsHold

(* Risk approves, Momentum says BUY NFLX, Valuation says SELL PLTR: the    *)
(* final decision is SELL PLTR.                                            *)
C39_Witness ==
    /\ decideCall.called
    /\ ~startswith(decideCall.risk.reason, <<"VETO">>)
    /\ decideCall.market.action = "BUY"
    /\ decideCall.market.symbol = "NFLX"
    /\ decideCall.valuation.action = "SELL"
    /\ decideCall.valuation.symbol = "PLTR"
    /\ decideCall.final.action = "SELL"
    /\ decideCall.final.symbol = "PLTR"

(* A veto overrides a Valuation BUY. *)
VetoOverridesValuationBuy ==
    /\ decideCall.called
    /\ startswith(decideCall.risk.reason, <<"VETO">>)
    /\ decideCall.valuation.action = "BUY"
    /\ decideCall.final.action = "HOLD"

(* Valuation holds and Momentum's SELL becomes the final decision. *)
MomentumDecides ==
    /\ decideCall.called
    /\ decideCall.valuation.action = "HOLD"
    /\ decideCall.market.action = "SELL"
    /\ decideCall.final.action = "SELL"

====
